---- MODULE Spec2Model ----
(***************************************************************************)
(* Listener merging and filter-chain translation of                        *)
(* internal/kgateway/translator/listener/gateway_listener_translator.go.   *)
(*                                                                         *)
(* One translation pass: mergeGWListeners appends the Gateway's listeners  *)
(* one by one to the MergedListeners aggregate, then translateListeners    *)
(* turns every MergedListener into a ListenerIR.  Status conditions are    *)
(* kept as the ordered log of the reporter calls.                          *)
(*                                                                         *)
(* Go strings on which the code computes (hostnames, generated names) are  *)
(* sequences of one-character strings; a Go pointer is a sequence of       *)
(* length 0 (nil) or 1.                                                    *)
(***************************************************************************)
EXTENDS Integers, Sequences, FiniteSets, TLC

VARIABLES
    pc,          \* "merge" | "translate" | "done": position in TranslateListeners
    input,       \* the (listener, binding result) pairs mergeGWListeners has consumed
    Listeners,   \* MergedListeners.Listeners
    output,      \* the []ir.ListenerIR built by translateListeners
    reports      \* the reporter calls made so far, in order

vars == <<pc, input, Listeners, output, reports>>

(***************************************************************************)
(* Bounds of the model.                                                    *)
(***************************************************************************)
MaxListeners == 3
MaxHttpListeners == 3
MaxTcpListeners == 2
MaxTlsListeners == 2
MaxBindingListeners == 3
MaxHostLen == 3

(***************************************************************************)
(* Strings.                                                                *)
(***************************************************************************)
\* The characters used, in byte order (Go compares strings bytewise).
Alphabet ==
    <<"*", "-", ".", "/", "0", "1", "2", "3", "4", "5", "6", "7", "8", "9",
      "_", "a", "b", "c", "d", "e", "f", "g", "h", "i", "j", "k", "l", "m",
      "n", "o", "p", "q", "r", "s", "t", "u", "v", "w", "x", "y", "z", "~">>

CodeTable == [c \in {Alphabet[i] : i \in DOMAIN Alphabet} |->
                 CHOOSE i \in DOMAIN Alphabet : Alphabet[i] = c]

Code(c) == CodeTable[c]

RECURSIVE StrLess(_, _)
StrLess(a, b) ==
    IF b = <<>> THEN FALSE
    ELSE IF a = <<>> THEN TRUE
    ELSE IF Code(Head(a)) # Code(Head(b)) THEN Code(Head(a)) < Code(Head(b))
    ELSE StrLess(Tail(a), Tail(b))

HasPrefix(s, p) == Len(s) >= Len(p) /\ SubSeq(s, 1, Len(p)) = p

HasSuffix(s, p) == Len(s) >= Len(p) /\ SubSeq(s, Len(s) - Len(p) + 1, Len(s)) = p

Digits == <<"0", "1", "2", "3", "4", "5", "6", "7", "8", "9">>

\* %d of a non-negative number
RECURSIVE Itoa(_)
Itoa(n) == IF n < 10 THEN <<Digits[n + 1]>> ELSE Itoa(n \div 10) \o <<Digits[(n % 10) + 1]>>

\* Go pointers
Nil == <<>>
Ptr(x) == <<x>>
Deref(p) == p[1]

Range(s) == {s[i] : i \in DOMAIN s}

\* the sequences that list every element of S once
RECURSIVE Perms(_)
Perms(S) ==
    IF S = {} THEN {<<>>}
    ELSE UNION {{<<x>> \o p : p \in Perms(S \ {x})} : x \in S}

RECURSIVE SeqProduct(_)
SeqProduct(sets) ==
    IF sets = <<>> THEN {<<>>}
    ELSE {<<x>> \o r : x \in Head(sets), r \in SeqProduct(Tail(sets))}

(***************************************************************************)
(* Names.                                                                  *)
(***************************************************************************)
GenerateListenerNameFromPort(port) ==
    <<"l", "i", "s", "t", "e", "n", "e", "r", "~">> \o Itoa(port)

GenerateListenerName(listener) == GenerateListenerNameFromPort(listener.Port)

getListenerPortNumber(listener) == listener.Port

\* query.GenerateRouteKey: the key of a (parent, listener name) pair
GenerateRouteKey(parent, name) == parent \o <<"/">> \o name

\* utils.SanitizeForEnvoy: characters Envoy resource names do not take are replaced
SanitizeChar(c) ==
    CASE c = "*" -> "-"
      [] c = "/" -> "-"
      [] c = "." -> "_"
      [] OTHER -> c

SanitizeForEnvoy(resourceName) == [i \in DOMAIN resourceName |-> SanitizeChar(resourceName[i])]

makeVhostName(parentName, domain) == SanitizeForEnvoy(parentName \o <<"~">> \o domain)

(***************************************************************************)
(* MergedListeners: AppendListener and its four per-protocol appenders.    *)
(* Each takes the current ml.Listeners and returns the new one.            *)
(***************************************************************************)
\* FindPort looking at the last MergedListener only
FindPortLast(ls, port) == IF ls # <<>> /\ ls[Len(ls)].port = port THEN Len(ls) ELSE 0

\* the position of the first MergedListener on this port, 0 when there is none
FindPort(ls, port) ==
    IF \E i \in DOMAIN ls : ls[i].port = port
    THEN CHOOSE i \in DOMAIN ls : ls[i].port = port /\ \A j \in 1..(i - 1) : ls[j].port # port
    ELSE 0

NewMergedListener(listener, reporter) ==
    [name |-> GenerateListenerName(listener),
     port |-> getListenerPortNumber(listener),
     httpFilterChain |-> Nil,
     httpsFilterChains |-> <<>>,
     TcpFilterChains |-> <<>>,
     listenerReporter |-> reporter,
     listener |-> listener]

\* appendHttpListener overwriting the chain of the port instead of joining it
appendHttpListenerOverwriting(ls, listener, routesWithHosts, reporter) ==
    LET parent == [gatewayListenerName |-> GenerateRouteKey(listener.Parent, listener.Name),
                   gatewayListener |-> listener,
                   routesWithHosts |-> routesWithHosts,
                   attachedPolicies |-> listener.AttachedPolicies]
        fc == [parents |-> <<parent>>]
        finalPort == getListenerPortNumber(listener)
        i == FindPort(ls, finalPort)
    IN  IF i # 0
        THEN [ls EXCEPT ![i].httpFilterChain = Ptr(fc)]
        ELSE Append(ls, [NewMergedListener(listener, reporter) EXCEPT !.httpFilterChain = Ptr(fc)])

appendHttpListener(ls, listener, routesWithHosts, reporter) ==
    LET parent == [gatewayListenerName |-> GenerateRouteKey(listener.Parent, listener.Name),
                   gatewayListener |-> listener,
                   routesWithHosts |-> routesWithHosts,
                   attachedPolicies |-> listener.AttachedPolicies]
        fc == [parents |-> <<parent>>]
        finalPort == getListenerPortNumber(listener)
        i == FindPort(ls, finalPort)
    IN  IF i # 0
        THEN IF ls[i].httpFilterChain # Nil
             THEN [ls EXCEPT ![i].httpFilterChain =
                      Ptr([parents |-> Append(Deref(@).parents, parent)])]
             ELSE [ls EXCEPT ![i].httpFilterChain = Ptr(fc)]
        ELSE Append(ls, [NewMergedListener(listener, reporter) EXCEPT !.httpFilterChain = Ptr(fc)])

\* appendHttpsListener joining the routes to the last HTTPS chain of the port
appendHttpsListenerMerging(ls, listener, routesWithHosts, reporter) ==
    LET tls == IF listener.TLS = Nil THEN [Mode |-> Nil, CertificateRefs |-> <<>>]
               ELSE Deref(listener.TLS)
        mfc == [gatewayListenerName |-> GenerateRouteKey(listener.Parent, listener.Name),
                sniDomain |-> listener.Hostname,
                tls |-> Ptr(tls),
                routesWithHosts |-> routesWithHosts,
                attachedPolicies |-> listener.AttachedPolicies]
        finalPort == getListenerPortNumber(listener)
        i == FindPort(ls, finalPort)
    IN  IF i # 0
        THEN IF ls[i].httpsFilterChains # <<>>
             THEN [ls EXCEPT ![i].httpsFilterChains[Len(ls[i].httpsFilterChains)].routesWithHosts =
                                 @ \o routesWithHosts]
             ELSE [ls EXCEPT ![i].httpsFilterChains = Append(@, mfc)]
        ELSE Append(ls, [NewMergedListener(listener, reporter) EXCEPT !.httpsFilterChains = <<mfc>>])

\* appendHttpsListener handing the port over to the listener appended last
appendHttpsListenerRenewing(ls, listener, routesWithHosts, reporter) ==
    LET tls == IF listener.TLS = Nil THEN [Mode |-> Nil, CertificateRefs |-> <<>>]
               ELSE Deref(listener.TLS)
        mfc == [gatewayListenerName |-> GenerateRouteKey(listener.Parent, listener.Name),
                sniDomain |-> listener.Hostname,
                tls |-> Ptr(tls),
                routesWithHosts |-> routesWithHosts,
                attachedPolicies |-> listener.AttachedPolicies]
        finalPort == getListenerPortNumber(listener)
        i == FindPort(ls, finalPort)
    IN  IF i # 0
        THEN [ls EXCEPT ![i].httpsFilterChains = Append(@, mfc),
                        ![i].listenerReporter = reporter,
                        ![i].listener = listener]
        ELSE Append(ls, [NewMergedListener(listener, reporter) EXCEPT !.httpsFilterChains = <<mfc>>])

appendHttpsListener(ls, listener, routesWithHosts, reporter) ==
    LET tls == IF listener.TLS = Nil THEN [Mode |-> Nil, CertificateRefs |-> <<>>]
               ELSE Deref(listener.TLS)
        mfc == [gatewayListenerName |-> GenerateRouteKey(listener.Parent, listener.Name),
                sniDomain |-> listener.Hostname,
                tls |-> Ptr(tls),
                routesWithHosts |-> routesWithHosts,
                attachedPolicies |-> listener.AttachedPolicies]
        finalPort == getListenerPortNumber(listener)
        i == FindPort(ls, finalPort)
    IN  IF i # 0
        THEN [ls EXCEPT ![i].httpsFilterChains = Append(@, mfc)]
        ELSE Append(ls, [NewMergedListener(listener, reporter) EXCEPT !.httpsFilterChains = <<mfc>>])

\* AppendTcpListener replacing the TCP chains of the port by the new one
AppendTcpListenerReplacing(ls, listener, routeInfos, reporter) ==
    LET parent == [gatewayListenerName |-> GenerateRouteKey(listener.Parent, listener.Name),
                   routesWithHosts |-> routeInfos]
        fc == [parents |-> parent, tls |-> Nil, sniDomain |-> Nil, listenerReporter |-> reporter]
        finalPort == getListenerPortNumber(listener)
        i == FindPort(ls, finalPort)
    IN  IF i # 0
        THEN [ls EXCEPT ![i].TcpFilterChains = <<fc>>]
        ELSE Append(ls, [NewMergedListener(listener, reporter) EXCEPT !.TcpFilterChains = <<fc>>])

AppendTcpListener(ls, listener, routeInfos, reporter) ==
    LET parent == [gatewayListenerName |-> GenerateRouteKey(listener.Parent, listener.Name),
                   routesWithHosts |-> routeInfos]
        fc == [parents |-> parent, tls |-> Nil, sniDomain |-> Nil, listenerReporter |-> reporter]
        finalPort == getListenerPortNumber(listener)
        i == FindPort(ls, finalPort)
    IN  IF i # 0
        THEN [ls EXCEPT ![i].TcpFilterChains = Append(@, fc)]
        ELSE Append(ls, [NewMergedListener(listener, reporter) EXCEPT !.TcpFilterChains = <<fc>>])

AppendTlsListener(ls, listener, routeInfos, reporter) ==
    LET parent == [gatewayListenerName |-> GenerateRouteKey(listener.Parent, listener.Name),
                   routesWithHosts |-> routeInfos]
        tls == IF listener.TLS = Nil THEN [Mode |-> Nil, CertificateRefs |-> <<>>]
               ELSE Deref(listener.TLS)
        fc == [parents |-> parent, tls |-> Ptr(tls), sniDomain |-> listener.Hostname,
               listenerReporter |-> reporter]
        finalPort == getListenerPortNumber(listener)
        i == FindPort(ls, finalPort)
    IN  IF i # 0
        THEN [ls EXCEPT ![i].TcpFilterChains = Append(@, fc)]
        ELSE Append(ls, [NewMergedListener(listener, reporter) EXCEPT !.TcpFilterChains = <<fc>>])

SupportedProtocols == {"HTTP", "HTTPS", "TCP", "TLS"}

\* fmt.Errorf("unsupported protocol: %v", protocol)
UnsupportedProtocol(protocol) == <<"unsupported protocol: ", protocol>>

\* a switch whose default case appends a TCP chain
AppendListenerDefaultTcp(ls, listener, routes, reporter) ==
    CASE listener.Protocol = "HTTP" ->
            [Listeners |-> appendHttpListener(ls, listener, routes, reporter), err |-> <<>>]
      [] listener.Protocol = "HTTPS" ->
            [Listeners |-> appendHttpsListener(ls, listener, routes, reporter), err |-> <<>>]
      [] OTHER ->
            [Listeners |-> AppendTcpListener(ls, listener, routes, reporter), err |-> <<>>]

\* returns the new ml.Listeners and the error (<<>> is nil)
AppendListener(ls, listener, routes, reporter) ==
    CASE listener.Protocol = "HTTP" ->
            [Listeners |-> appendHttpListener(ls, listener, routes, reporter), err |-> <<>>]
      [] listener.Protocol = "HTTPS" ->
            [Listeners |-> appendHttpsListener(ls, listener, routes, reporter), err |-> <<>>]
      [] listener.Protocol = "TCP" ->
            [Listeners |-> AppendTcpListener(ls, listener, routes, reporter), err |-> <<>>]
      [] listener.Protocol = "TLS" ->
            [Listeners |-> AppendTlsListener(ls, listener, routes, reporter), err |-> <<>>]
      [] OTHER -> [Listeners |-> ls, err |-> UnsupportedProtocol(listener.Protocol)]

\* parentReporter.ListenerName(listener.Name): the reporter of one Gateway listener
ListenerReporterOf(listener) == [Parent |-> listener.Parent, Name |-> listener.Name]

\* a loop body that leaves out a listener without result or with a binding error
mergeGWListenersStepSkipping(ls, item) ==
    LET listener == item.listener
        result == item.result
        listenerReporter == ListenerReporterOf(listener)
    IN  IF result = Nil \/ Deref(result).Error
        THEN ls
        ELSE AppendListener(ls, listener, Deref(result).Routes, listenerReporter).Listeners

\* one iteration of the loop of mergeGWListeners over an (listener, result) pair
mergeGWListenersStep(ls, item) ==
    LET listener == item.listener
        result == item.result
        listenerReporter == ListenerReporterOf(listener)
        routes == IF result # Nil THEN Deref(result).Routes ELSE <<>>
    IN  AppendListener(ls, listener, routes, listenerReporter).Listeners

(***************************************************************************)
(* Reporter calls.  A ListenerReporter is named by its listener, a         *)
(* ParentRefReporter by its route and parent ref.                          *)
(***************************************************************************)
NoCondition == [Type |-> "", Status |-> "", Reason |-> "", Message |-> <<>>]

ListenerCondition(reporter, cond) == [kind |-> "listener", who |-> reporter, cond |-> cond]

RouteCondition(route, parentRef, cond) ==
    [kind |-> "route", who |-> [Route |-> route.Name, ParentRef |-> parentRef], cond |-> cond]

\* the call of the route-rule translator, which reports on the route's parent ref
RouteTranslated(route) ==
    [kind |-> "translate", who |-> [Route |-> route.Name, ParentRef |-> route.ParentRef],
     cond |-> NoCondition]

TcpTlsListenerNoBackendsMessage == <<"TCP/TLS listener has no valid backends or routes">>

SecretNotFoundMessage(namespace, name) == <<"Secret ", namespace, "/", name, " not found.">>

(***************************************************************************)
(* Collaborators of the translator.                                        *)
(***************************************************************************)
NoError == [kind |-> "", text |-> "", Namespace |-> "", Name |-> ""]

\* query.GatewayQueries.GetSecretForRef on the secrets of the cluster
GetSecretForRef(parentNamespace, certRef) ==
    CASE certRef = "nogrant" ->
            [secret |-> Nil,
             err |-> [kind |-> "ErrMissingReferenceGrant", text |-> "missing reference grant",
                      Namespace |-> "", Name |-> ""]]
      [] certRef = "missing" ->
            [secret |-> Nil,
             err |-> [kind |-> "NotFoundError", text |-> "not found",
                      Namespace |-> parentNamespace, Name |-> certRef]]
      [] certRef = "broken" ->
            [secret |-> Nil,
             err |-> [kind |-> "error", text |-> "lookup failed", Namespace |-> "", Name |-> ""]]
      [] OTHER ->
            [secret |-> Ptr([Name |-> certRef, Namespace |-> parentNamespace]), err |-> NoError]

\* sslutils.ValidateTlsSecretData
ValidateTlsSecretData(secret) ==
    IF secret.Name = "malformed"
    THEN [kind |-> "ErrInvalidTlsSecret", text |-> "invalid TLS secret: malformed key pair",
          Namespace |-> "", Name |-> ""]
    ELSE NoError

\* route.TranslateGatewayHTTPRouteRules: the rules one bound route translates to
TranslateGatewayHTTPRouteRules(routeInfo) ==
    [i \in 1..routeInfo.Translated |-> [Route |-> routeInfo.Name, Rule |-> i]]

\* routeutils.ToSortable
ToSortable(routeInfo, routes) ==
    [i \in DOMAIN routes |->
        [Route |-> routes[i], CreationTimestamp |-> routeInfo.CreationTimestamp,
         Name |-> routeInfo.Name]]

\* routeutils.SortableRoutes.Less: older routes first, then by name
RouteLess(a, b) ==
    \/ a.CreationTimestamp < b.CreationTimestamp
    \/ a.CreationTimestamp = b.CreationTimestamp /\ StrLess(a.Name, b.Name)

\* one insertion of sort.Stable: x goes behind the elements that are not after it
InsertRoute(sorted, x) ==
    LET pos == CHOOSE j \in 0..Len(sorted) :
                   /\ \A i \in (j + 1)..Len(sorted) : RouteLess(x, sorted[i])
                   /\ j > 0 => ~RouteLess(x, sorted[j])
    IN  SubSeq(sorted, 1, pos) \o <<x>> \o SubSeq(sorted, pos + 1, Len(sorted))

RECURSIVE SortStableInto(_, _)
SortStableInto(sorted, s) ==
    IF s = <<>> THEN sorted ELSE SortStableInto(InsertRoute(sorted, Head(s)), Tail(s))

\* sort.Stable(vhostRoutes)
SortStable(s) == SortStableInto(<<>>, s)

ToRoutes(s) == [i \in DOMAIN s |-> s[i].Route]

\* query.ProcessBackendError
ProcessBackendError(err, route, parentRef) ==
    RouteCondition(route, parentRef,
        [Type |-> "ResolvedRefs", Status |-> "False",
         Reason |-> IF err = "not found" THEN "BackendNotFound" ELSE err,
         Message |-> <<err>>])

(***************************************************************************)
(* isHostContained                                                         *)
(***************************************************************************)
\* a containment in which a wildcard also takes the bare suffix
isHostContainedBare(host, maybeLhost) ==
    IF maybeLhost = Nil THEN TRUE
    ELSE LET listenerHostname == Deref(maybeLhost)
         IN  \/ /\ HasPrefix(listenerHostname, <<"*", ".">>)
                /\ \/ HasSuffix(host, Tail(listenerHostname))
                   \/ host = Tail(Tail(listenerHostname))
             \/ host = listenerHostname

isHostContained(host, maybeLhost) ==
    IF maybeLhost = Nil THEN TRUE
    ELSE LET listenerHostname == Deref(maybeLhost)
         IN  \/ /\ HasPrefix(listenerHostname, <<"*", ".">>)
                /\ HasSuffix(host, Tail(listenerHostname))
             \/ host = listenerHostname

(***************************************************************************)
(* buildRoutesPerHost: routesByHost is a Go map, here a function whose     *)
(* domain is the set of its keys.                                          *)
(***************************************************************************)
Wildcard == <<"*">>

MapAppend(m, host, routes) ==
    IF host \in DOMAIN m THEN [m EXCEPT ![host] = @ \o routes] ELSE m @@ (host :> routes)

RECURSIVE AppendPerHost(_, _, _)
AppendPerHost(m, hostnames, routes) ==
    IF hostnames = <<>> THEN m
    ELSE AppendPerHost(MapAppend(m, Head(hostnames), routes), Tail(hostnames), routes)

\* the body of the loop of buildRoutesPerHost; acc holds the map and the reporter
\* calls made so far
buildRoutesOfRoute(acc, routeWithHosts, translated) ==
    [routesByHost |->
        IF Len(translated) = 0 THEN acc.routesByHost
        ELSE AppendPerHost(acc.routesByHost,
                           IF Len(routeWithHosts.Hostnames) = 0 THEN <<Wildcard>>
                           ELSE routeWithHosts.Hostnames,
                           ToSortable(routeWithHosts, translated)),
     events |-> Append(acc.events, RouteTranslated(routeWithHosts))]

RECURSIVE buildRoutesPerHost(_, _)
buildRoutesPerHost(acc, routes) ==
    IF routes = <<>> THEN acc
    ELSE buildRoutesPerHost(
             buildRoutesOfRoute(acc, Head(routes), TranslateGatewayHTTPRouteRules(Head(routes))),
             Tail(routes))

EmptyMap == [routesByHost |-> [h \in {} |-> <<>>], events |-> <<>>]

\* the loop over the parents of an HTTP chain, all filling one map
RECURSIVE buildRoutesOfParents(_, _)
buildRoutesOfParents(acc, parents) ==
    IF parents = <<>> THEN acc
    ELSE buildRoutesOfParents(buildRoutesPerHost(acc, Head(parents).routesWithHosts),
                              Tail(parents))

(***************************************************************************)
(* translateHttpFilterChain                                                *)
(***************************************************************************)
NoPolicies == {}

\* the zero value of ir.Listener
ZeroListener ==
    [Name |-> <<>>, Parent |-> <<>>, Protocol |-> "", Port |-> 0, Hostname |-> Nil,
     TLS |-> Nil, AttachedPolicies |-> NoPolicies, PolicyAncestorRef |-> <<>>]

HostnameLen(p) == IF p.gatewayListener.Hostname # Nil THEN Len(Deref(p.gatewayListener.Hostname)) ELSE 0

\* a comparison under which the last of equally long hostnames wins
MoreSpecificOrEqual(hostnameLen, maxHostnameLen) == hostnameLen >= maxHostnameLen

\* the comparison that lets a parent replace the one found so far
MoreSpecific(hostnameLen, maxHostnameLen) == hostnameLen > maxHostnameLen

\* the inner loop over the parents: the parent a host belongs to
RECURSIVE FindParent(_, _, _)
FindParent(parents, host, acc) ==
    IF parents = <<>> THEN acc
    ELSE LET p == Head(parents)
         IN  IF ~isHostContained(host, p.gatewayListener.Hostname)
             THEN FindParent(Tail(parents), host, acc)
             ELSE IF MoreSpecific(HostnameLen(p), acc.maxHostnameLen)
                  THEN FindParent(Tail(parents), host,
                                  [attachedPolicies |-> p.attachedPolicies,
                                   listenerRef |-> p.gatewayListener,
                                   maxHostnameLen |-> HostnameLen(p)])
                  ELSE FindParent(Tail(parents), host, acc)

NoParent == [attachedPolicies |-> NoPolicies, listenerRef |-> ZeroListener, maxHostnameLen |-> -1]

\* whether the loop skips a host whose vhost name was already produced
SkipVhost(virtualHostNames, vhostName) == vhostName \in virtualHostNames

\* the body of the loop over the map, for one host
HttpVhost(parentName, host, vhostRoutes, found) ==
    [Name |-> makeVhostName(parentName, host),
     Hostname |-> host,
     Rules |-> ToRoutes(SortStable(vhostRoutes)),
     AttachedPolicies |-> found.attachedPolicies,
     ParentRef |-> found.listenerRef]

AddVhost(virtualHosts, vhost) ==
    IF SkipVhost({virtualHosts[i].Name : i \in DOMAIN virtualHosts}, vhost.Name)
    THEN virtualHosts
    ELSE Append(virtualHosts, vhost)

\* a loop over the map that leaves out a host no parent's hostname contains
RECURSIVE HttpVhostsMatchedOnly(_, _, _, _, _)
HttpVhostsMatchedOnly(parents, parentName, routesByHost, order, virtualHosts) ==
    IF order = <<>> THEN virtualHosts
    ELSE IF FindParent(parents, Head(order), NoParent) = NoParent
    THEN HttpVhostsMatchedOnly(parents, parentName, routesByHost, Tail(order), virtualHosts)
    ELSE HttpVhostsMatchedOnly(parents, parentName, routesByHost, Tail(order),
                    AddVhost(virtualHosts,
                             HttpVhost(parentName, Head(order), routesByHost[Head(order)],
                                       FindParent(parents, Head(order), NoParent))))

\* the loop over the map, which Go walks in an order of its own: order
RECURSIVE HttpVhosts(_, _, _, _, _)
HttpVhosts(parents, parentName, routesByHost, order, virtualHosts) ==
    IF order = <<>> THEN virtualHosts
    ELSE HttpVhosts(parents, parentName, routesByHost, Tail(order),
                    AddVhost(virtualHosts,
                             HttpVhost(parentName, Head(order), routesByHost[Head(order)],
                                       FindParent(parents, Head(order), NoParent))))

InsertVhost(sorted, x) ==
    LET pos == CHOOSE j \in 0..Len(sorted) :
                   /\ \A i \in (j + 1)..Len(sorted) : StrLess(x.Name, sorted[i].Name)
                   /\ j > 0 => ~StrLess(x.Name, sorted[j].Name)
    IN  SubSeq(sorted, 1, pos) \o <<x>> \o SubSeq(sorted, pos + 1, Len(sorted))

RECURSIVE SortVhostsInto(_, _)
SortVhostsInto(sorted, s) ==
    IF s = <<>> THEN sorted ELSE SortVhostsInto(InsertVhost(sorted, Head(s)), Tail(s))

\* sort.Slice(virtualHosts, by Name)
SortVhosts(s) == SortVhostsInto(<<>>, s)

NoMatcher == [SniDomains |-> <<>>]

HttpChainOf(httpFilterChain, parentName, order, built) ==
    [chain |-> [FilterChainName |-> parentName,
                Matcher |-> NoMatcher,
                TLS |-> Nil,
                AttachedPolicies |-> NoPolicies,
                Vhosts |-> SortVhosts(HttpVhosts(httpFilterChain.parents, parentName,
                                                 built.routesByHost, order, <<>>))],
     events |-> built.events]

translateHttpFilterChain(httpFilterChain, parentName, order) ==
    HttpChainOf(httpFilterChain, parentName, order,
                buildRoutesOfParents(EmptyMap, httpFilterChain.parents))

\* the keys of the map the chain iterates
HttpHosts(httpFilterChain) ==
    DOMAIN buildRoutesOfParents(EmptyMap, httpFilterChain.parents).routesByHost

(***************************************************************************)
(* translateSslConfig and translateHttpsFilterChain                        *)
(***************************************************************************)
GatewayNamespace == "default"

\* a resolution that looks up the first certificate ref before counting them
translateSslConfigLookupFirst(parentNamespace, tls) ==
    IF tls = Nil THEN [bundle |-> Nil, err |-> NoError]
    ELSE IF Deref(tls).Mode = Nil \/ Deref(Deref(tls).Mode) # "Terminate"
    THEN [bundle |-> Nil, err |-> NoError]
    ELSE IF /\ Len(Deref(tls).CertificateRefs) >= 1
            /\ GetSecretForRef(parentNamespace, Deref(tls).CertificateRefs[1]).err # NoError
    THEN [bundle |-> Nil,
          err |-> GetSecretForRef(parentNamespace, Deref(tls).CertificateRefs[1]).err]
    ELSE IF Len(Deref(tls).CertificateRefs) # 1
    THEN [bundle |-> Nil,
          err |-> [kind |-> "error", text |-> "only one certificate ref is supported for now",
                   Namespace |-> "", Name |-> ""]]
    ELSE LET certRef == Deref(tls).CertificateRefs[1]
             got == GetSecretForRef(parentNamespace, certRef)
         IN  IF ValidateTlsSecretData(Deref(got.secret)) # NoError
             THEN [bundle |-> Nil, err |-> ValidateTlsSecretData(Deref(got.secret))]
             ELSE [bundle |-> Ptr([PrivateKey |-> <<"key", certRef>>,
                                   CertChain |-> <<"crt", certRef>>,
                                   CA |-> <<"ca", certRef>>]),
                   err |-> NoError]

\* a resolution that looks the certificate up in every mode
translateSslConfigAnyMode(parentNamespace, tls) ==
    IF tls = Nil THEN [bundle |-> Nil, err |-> NoError]
    ELSE IF Len(Deref(tls).CertificateRefs) # 1
    THEN [bundle |-> Nil,
          err |-> [kind |-> "error", text |-> "only one certificate ref is supported for now",
                   Namespace |-> "", Name |-> ""]]
    ELSE [bundle |-> Nil, err |-> GetSecretForRef(parentNamespace, Deref(tls).CertificateRefs[1]).err]

translateSslConfig(parentNamespace, tls) ==
    IF tls = Nil THEN [bundle |-> Nil, err |-> NoError]
    ELSE IF Deref(tls).Mode = Nil \/ Deref(Deref(tls).Mode) # "Terminate"
    THEN [bundle |-> Nil, err |-> NoError]
    ELSE IF Len(Deref(tls).CertificateRefs) # 1
    THEN [bundle |-> Nil,
          err |-> [kind |-> "error", text |-> "only one certificate ref is supported for now",
                   Namespace |-> "", Name |-> ""]]
    ELSE LET certRef == Deref(tls).CertificateRefs[1]
             got == GetSecretForRef(parentNamespace, certRef)
         IN  IF got.err # NoError THEN [bundle |-> Nil, err |-> got.err]
             ELSE IF ValidateTlsSecretData(Deref(got.secret)) # NoError
             THEN [bundle |-> Nil, err |-> ValidateTlsSecretData(Deref(got.secret))]
             ELSE [bundle |-> Ptr([PrivateKey |-> <<"key", certRef>>,
                                   CertChain |-> <<"crt", certRef>>,
                                   CA |-> <<"ca", certRef>>]),
                   err |-> NoError]

HttpsVhost(parentName, host, vhostRoutes) ==
    [Name |-> makeVhostName(parentName, host),
     Hostname |-> host,
     Rules |-> ToRoutes(SortStable(vhostRoutes)),
     AttachedPolicies |-> NoPolicies,
     ParentRef |-> ZeroListener]

RECURSIVE HttpsVhosts(_, _, _, _)
HttpsVhosts(parentName, routesByHost, order, virtualHosts) ==
    IF order = <<>> THEN virtualHosts
    ELSE HttpsVhosts(parentName, routesByHost, Tail(order),
                     AddVhost(virtualHosts,
                              HttpsVhost(parentName, Head(order), routesByHost[Head(order)])))

\* a mapping that knows one reason only
TlsErrorReasonAlways(err) == "InvalidCertificateRef"

\* the reason and message of the conditions a TLS resolution error is reported with
TlsErrorReason(err) ==
    IF err.kind = "ErrMissingReferenceGrant" THEN "RefNotPermitted" ELSE "InvalidCertificateRef"

TlsErrorMessage(err) ==
    IF err.kind = "NotFoundError" THEN SecretNotFoundMessage(err.Namespace, err.Name)
    ELSE IF err.kind = "ErrInvalidTlsSecret" THEN <<err.text>>
    ELSE IF err.kind = "ErrMissingReferenceGrant" THEN <<"Reference not permitted by ReferenceGrant.">>
    ELSE <<"Invalid certificate ref.">>

\* a translation that resolves TLS first and returns before any route is translated
HttpsChainOfTlsFirst(httpsFilterChain, parentName, listenerReporter, order, built, ssl) ==
    IF ssl.err # NoError
    THEN [chain |-> Nil,
          err |-> ssl.err,
          events |->
              <<ListenerCondition(listenerReporter,
                    [Type |-> "ResolvedRefs", Status |-> "False",
                     Reason |-> TlsErrorReason(ssl.err), Message |-> TlsErrorMessage(ssl.err)]),
                ListenerCondition(listenerReporter,
                    [Type |-> "Programmed", Status |-> "False",
                     Reason |-> "Invalid", Message |-> TlsErrorMessage(ssl.err)])>>]
    ELSE [chain |-> Ptr([FilterChainName |-> parentName,
                         Matcher |-> IF httpsFilterChain.sniDomain # Nil
                                     THEN [SniDomains |-> <<Deref(httpsFilterChain.sniDomain)>>]
                                     ELSE NoMatcher,
                         TLS |-> ssl.bundle,
                         AttachedPolicies |-> httpsFilterChain.attachedPolicies,
                         Vhosts |-> SortVhosts(HttpsVhosts(parentName, built.routesByHost,
                                                           order, <<>>))]),
          err |-> NoError,
          events |-> built.events]

\* the part of translateHttpsFilterChain after the routes and the TLS resolution
HttpsChainOf(httpsFilterChain, parentName, listenerReporter, order, built, ssl) ==
    IF ssl.err # NoError
    THEN [chain |-> Nil,
          err |-> ssl.err,
          events |-> built.events \o
              <<ListenerCondition(listenerReporter,
                    [Type |-> "ResolvedRefs", Status |-> "False",
                     Reason |-> TlsErrorReason(ssl.err), Message |-> TlsErrorMessage(ssl.err)]),
                ListenerCondition(listenerReporter,
                    [Type |-> "Programmed", Status |-> "False",
                     Reason |-> "Invalid", Message |-> TlsErrorMessage(ssl.err)])>>]
    ELSE [chain |-> Ptr([FilterChainName |-> parentName,
                         Matcher |-> IF httpsFilterChain.sniDomain # Nil
                                     THEN [SniDomains |-> <<Deref(httpsFilterChain.sniDomain)>>]
                                     ELSE NoMatcher,
                         TLS |-> ssl.bundle,
                         AttachedPolicies |-> httpsFilterChain.attachedPolicies,
                         Vhosts |-> SortVhosts(HttpsVhosts(parentName, built.routesByHost,
                                                           order, <<>>))]),
          err |-> NoError,
          events |-> built.events]

\* returns the chain (nil on error), the error and the reporter calls
translateHttpsFilterChain(httpsFilterChain, parentName, gatewayNamespace, listenerReporter, order) ==
    HttpsChainOf(httpsFilterChain, parentName, listenerReporter, order,
                 buildRoutesPerHost(EmptyMap, httpsFilterChain.routesWithHosts),
                 translateSslConfig(gatewayNamespace, httpsFilterChain.tls))

HttpsHosts(httpsFilterChain) ==
    DOMAIN buildRoutesPerHost(EmptyMap, httpsFilterChain.routesWithHosts).routesByHost

\* a selection that falls back to the earliest route that can be translated
MinFuncFallback(routes) ==
    LET valid == {i \in DOMAIN routes :
                     routes[i].Kind \in {"TCPRoute", "TLSRoute"} /\ routes[i].SpecRules = 1}
    IN  IF valid = {} THEN routes[1]
        ELSE routes[CHOOSE i \in valid :
                       \A j \in valid : routes[i].CreationTimestamp <= routes[j].CreationTimestamp]

(***************************************************************************)
(* translateTcpFilterChain                                                 *)
(***************************************************************************)
\* a selection that takes the first route of the list
MinFuncFirst(routes) == routes[1]

\* slices.MinFunc by creation timestamp: the first of the minimal elements
MinFunc(routes) ==
    routes[CHOOSE i \in DOMAIN routes :
              /\ \A j \in DOMAIN routes : routes[i].CreationTimestamp <= routes[j].CreationTimestamp
              /\ \A j \in 1..(i - 1) : routes[j].CreationTimestamp # routes[i].CreationTimestamp]

\* the Accepted condition computed from the rules the route declares
AcceptedCondition(tRoute) ==
    IF tRoute.SpecRules = 1
    THEN [Type |-> "Accepted", Status |-> "True", Reason |-> "Accepted", Message |-> <<>>]
    ELSE [Type |-> "Accepted", Status |-> "False", Reason |-> "UnsupportedValue", Message |-> <<>>]

\* the loop that sets the condition on the reporter of every parent ref
SetOnParentRefs(tRoute, condition) ==
    [i \in DOMAIN tRoute.ParentRefs |-> RouteCondition(tRoute, tRoute.ParentRefs[i], condition)]

\* a loop over the backends that reports an error on the first parent ref only
RECURSIVE BackendErrorsFirstParent(_, _)
BackendErrorsFirstParent(tRoute, backends) ==
    IF backends = <<>> THEN <<>>
    ELSE LET backend == Head(backends)
             err == IF backend.Err # "" THEN backend.Err ELSE "not found"
             calls == IF backend.Err # "" \/ ~backend.HasObject
                      THEN <<ProcessBackendError(err, tRoute, tRoute.ParentRefs[1])>>
                      ELSE <<>>
         IN  calls \o BackendErrorsFirstParent(tRoute, Tail(backends))

\* the reporter calls of the loop over the backends
RECURSIVE BackendErrors(_, _)
BackendErrors(tRoute, backends) ==
    IF backends = <<>> THEN <<>>
    ELSE LET backend == Head(backends)
             err == IF backend.Err # "" THEN backend.Err ELSE "not found"
             calls == IF backend.Err # "" \/ ~backend.HasObject
                      THEN [i \in DOMAIN tRoute.ParentRefs |->
                               ProcessBackendError(err, tRoute, tRoute.ParentRefs[i])]
                      ELSE <<>>
         IN  calls \o BackendErrors(tRoute, Tail(backends))

TcpHostName(parentName, tRoute) ==
    parentName \o <<"-">> \o tRoute.Namespace \o <<".">> \o tRoute.Name
        \o <<"-", "r", "u", "l", "e", "-">> \o Itoa(0)

\* a type switch that keeps the backends without error only
TcpOfRouteResolvedOnly(tc, parentName, r) ==
    LET resolved == SelectSeq(r.Backends, LAMBDA b : b.Err = "" /\ b.HasObject)
    IN  IF r.Kind \notin {"TCPRoute", "TLSRoute"} THEN [tcp |-> Nil, events |-> <<>>]
        ELSE IF AcceptedCondition(r).Status # "True" THEN [tcp |-> Nil, events |-> <<>>]
        ELSE IF Len(resolved) = 0
        THEN [tcp |-> Nil,
              events |-> SetOnParentRefs(r, AcceptedCondition(r)) \o BackendErrors(r, r.Backends)]
        ELSE [tcp |-> Ptr([FilterChainName |-> TcpHostName(parentName, r),
                           Matcher |-> IF r.Kind = "TLSRoute" /\ tc.sniDomain # Nil
                                       THEN [SniDomains |-> <<Deref(tc.sniDomain)>>]
                                       ELSE NoMatcher,
                           BackendRefs |-> resolved]),
              events |-> SetOnParentRefs(r, AcceptedCondition(r)) \o BackendErrors(r, r.Backends)]

\* the type switch on the selected route r
TcpOfRoute(tc, parentName, r) ==
    IF r.Kind \notin {"TCPRoute", "TLSRoute"} THEN [tcp |-> Nil, events |-> <<>>]
    ELSE IF AcceptedCondition(r).Status # "True" THEN [tcp |-> Nil, events |-> <<>>]
    ELSE IF Len(r.Backends) = 0
    THEN [tcp |-> Nil,
          events |-> SetOnParentRefs(r, AcceptedCondition(r)) \o BackendErrors(r, r.Backends)]
    ELSE [tcp |-> Ptr([FilterChainName |-> TcpHostName(parentName, r),
                       Matcher |-> IF r.Kind = "TLSRoute" /\ tc.sniDomain # Nil
                                   THEN [SniDomains |-> <<Deref(tc.sniDomain)>>]
                                   ELSE NoMatcher,
                       BackendRefs |-> r.Backends]),
          events |-> SetOnParentRefs(r, AcceptedCondition(r)) \o BackendErrors(r, r.Backends)]

\* returns the TcpIR (nil when there is none) and the reporter calls
translateTcpFilterChain(tc, parentName) ==
    IF Len(tc.parents.routesWithHosts) = 0 THEN [tcp |-> Nil, events |-> <<>>]
    ELSE TcpOfRoute(tc, parentName, MinFunc(tc.parents.routesWithHosts))

(***************************************************************************)
(* MergedListener.TranslateListener                                        *)
(***************************************************************************)
\* a loop body that drops a failed chain together with its reporter calls
AddHttpsChainSilent(acc, one) ==
    IF one.err # NoError
    THEN acc
    ELSE [chains |-> Append(acc.chains, Deref(one.chain)), events |-> acc.events \o one.events]

\* the body of the loop over ml.httpsFilterChains: a failed chain is skipped
AddHttpsChain(acc, one) ==
    IF one.err # NoError
    THEN [chains |-> acc.chains, events |-> acc.events \o one.events]
    ELSE [chains |-> Append(acc.chains, Deref(one.chain)), events |-> acc.events \o one.events]

\* the loop over ml.httpsFilterChains; orders[i] is the map order of chain i
RECURSIVE TranslateHttpsChains(_, _, _, _)
TranslateHttpsChains(ml, i, orders, acc) ==
    IF i > Len(ml.httpsFilterChains) THEN acc
    ELSE TranslateHttpsChains(ml, i + 1, orders,
             AddHttpsChain(acc,
                 translateHttpsFilterChain(ml.httpsFilterChains[i],
                                           ml.httpsFilterChains[i].gatewayListenerName,
                                           GatewayNamespace, ml.listenerReporter, orders[i])))

\* a loop body in which a chain without TCP IR discards the IRs before it
AddTcpChainAborting(acc, one) ==
    IF one.tcp # Nil
    THEN [tcps |-> Append(acc.tcps, Deref(one.tcp)), events |-> acc.events \o one.events]
    ELSE [tcps |-> <<>>, events |-> acc.events \o one.events]

AddTcpChain(acc, one) ==
    IF one.tcp # Nil
    THEN [tcps |-> Append(acc.tcps, Deref(one.tcp)), events |-> acc.events \o one.events]
    ELSE [tcps |-> acc.tcps, events |-> acc.events \o one.events]

\* the loop over ml.TcpFilterChains
RECURSIVE TranslateTcpChains(_, _, _)
TranslateTcpChains(ml, i, acc) ==
    IF i > Len(ml.TcpFilterChains) THEN acc
    ELSE TranslateTcpChains(ml, i + 1,
             AddTcpChain(acc, translateTcpFilterChain(ml.TcpFilterChains[i], ml.name)))

\* a report that reaches only the reporter of the MergedListener
AllTcpFailedFirstOnly(ml, matchedTcpListeners) ==
    IF Len(ml.TcpFilterChains) > 0 /\ Len(matchedTcpListeners) = 0
    THEN <<ListenerCondition(ml.listenerReporter,
               [Type |-> "Programmed", Status |-> "False", Reason |-> "Invalid",
                Message |-> TcpTlsListenerNoBackendsMessage])>>
    ELSE <<>>

\* Programmed=False on every TCP chain's reporter when all of them failed
AllTcpFailed(ml, matchedTcpListeners) ==
    IF Len(ml.TcpFilterChains) > 0 /\ Len(matchedTcpListeners) = 0
    THEN [i \in DOMAIN ml.TcpFilterChains |->
             ListenerCondition(ml.TcpFilterChains[i].listenerReporter,
                 [Type |-> "Programmed", Status |-> "False", Reason |-> "Invalid",
                  Message |-> TcpTlsListenerNoBackendsMessage])]
    ELSE <<>>

\* the ListenerIR put together, and the reporter calls in the order they were made
ListenerOf(ml, http, https, tcp) ==
    [listener |-> [Name |-> ml.name,
                   BindPort |-> ml.port,
                   AttachedPolicies |-> NoPolicies,
                   HttpFilterChain |-> http.chains \o https.chains,
                   TcpFilterChain |-> tcp.tcps,
                   PolicyAncestorRef |-> ml.listener.PolicyAncestorRef],
     events |-> http.events \o https.events \o tcp.events \o AllTcpFailed(ml, tcp.tcps)]

HttpChainsOf(t) == [chains |-> <<t.chain>>, events |-> t.events]

TranslateListener(ml, httpOrder, httpsOrders) ==
    ListenerOf(ml,
        IF ml.httpFilterChain # Nil
        THEN HttpChainsOf(translateHttpFilterChain(Deref(ml.httpFilterChain), ml.name, httpOrder))
        ELSE [chains |-> <<>>, events |-> <<>>],
        TranslateHttpsChains(ml, 1, httpsOrders, [chains |-> <<>>, events |-> <<>>]),
        TranslateTcpChains(ml, 1, [tcps |-> <<>>, events |-> <<>>]))

\* the orders in which Go may walk the maps of one MergedListener
HttpOrders(ml) ==
    IF ml.httpFilterChain # Nil THEN Perms(HttpHosts(Deref(ml.httpFilterChain))) ELSE {<<>>}

HttpsOrders(ml) ==
    SeqProduct([i \in DOMAIN ml.httpsFilterChains |-> Perms(HttpsHosts(ml.httpsFilterChains[i]))])

(***************************************************************************)
(* The Gateway's input: hostnames, routes with their binding, listeners.   *)
(***************************************************************************)
hAX == <<"a", ".", "x">>
hABX == <<"a", "b", ".", "x">>
hWX == <<"*", ".", "x">>
hDX == <<"-", ".", "x">>
hBY == <<"b", ".", "y">>

GatewayRef == <<"g", "w">>

HTTPRoute(name, hostnames, translated, created) ==
    [Kind |-> "HTTPRoute", Namespace |-> <<"n">>, Name |-> name, Hostnames |-> hostnames,
     Translated |-> translated, SpecRules |-> translated, Backends |-> <<>>,
     CreationTimestamp |-> created, ParentRefs |-> <<GatewayRef>>, ParentRef |-> GatewayRef]

TCPRoute(kind, name, rules, backends, created, parentRefs) ==
    [Kind |-> kind, Namespace |-> <<"n">>, Name |-> name, Hostnames |-> <<>>,
     Translated |-> 0, SpecRules |-> rules, Backends |-> backends,
     CreationTimestamp |-> created, ParentRefs |-> parentRefs, ParentRef |-> GatewayRef]

Backend(name, err, hasObject) == [Name |-> name, Err |-> err, HasObject |-> hasObject]

rA == HTTPRoute(<<"r", "a">>, <<hAX>>, 1, 2)
rB == HTTPRoute(<<"r", "b">>, <<hABX, hAX>>, 2, 1)
rB2 == HTTPRoute(<<"r", "b">>, <<hABX>>, 2, 1)
rW == HTTPRoute(<<"r", "w">>, <<hWX>>, 1, 3)
rD == HTTPRoute(<<"r", "d">>, <<hDX>>, 1, 4)
rN == HTTPRoute(<<"r", "n">>, <<>>, 1, 5)
rZ == HTTPRoute(<<"r", "z">>, <<hBY>>, 0, 6)

t1 == TCPRoute("TCPRoute", <<"t", "1">>, 1, <<Backend("svc1", "", TRUE)>>, 1, <<GatewayRef>>)
t2 == TCPRoute("TCPRoute", <<"t", "2">>, 2,
               <<Backend("svc1", "", TRUE), Backend("svc2", "", TRUE)>>, 2,
               <<GatewayRef, <<"g", "2">>>>)
t3 == TCPRoute("TLSRoute", <<"t", "3">>, 1,
               <<Backend("svc1", "", TRUE), Backend("gone", "", FALSE),
                 Backend("denied", "RefNotPermitted", FALSE)>>, 3,
               <<GatewayRef, <<"g", "2">>>>)
t4 == TCPRoute("TCPRoute", <<"t", "4">>, 1, <<>>, 4, <<GatewayRef>>)
t5 == TCPRoute("TLSRoute", <<"t", "5">>, 1, <<Backend("svc5", "", TRUE)>>, 5, <<GatewayRef>>)
t6 == TCPRoute("TCPRoute", <<"t", "6">>, 1,
               <<Backend("gone", "", FALSE), Backend("denied", "RefNotPermitted", FALSE)>>, 6,
               <<GatewayRef>>)

Terminate(certRefs) == Ptr([Mode |-> Ptr("Terminate"), CertificateRefs |-> certRefs])

Passthrough == Ptr([Mode |-> Ptr("Passthrough"), CertificateRefs |-> <<>>])

Bound(routes) == Ptr([Routes |-> routes, Error |-> FALSE])

Template(protocol, port, hostname, tls, result) ==
    [Protocol |-> protocol, Port |-> port, Hostname |-> hostname, TLS |-> tls, result |-> result]

\* the i-th listener of the Gateway, made of a template
Item(t, i) ==
    LET name == <<"l">> \o Itoa(i)
    IN  [listener |-> [Name |-> name, Parent |-> GatewayRef, Protocol |-> t.Protocol,
                       Port |-> t.Port, Hostname |-> t.Hostname, TLS |-> t.TLS,
                       AttachedPolicies |-> {name}, PolicyAncestorRef |-> name],
         result |-> t.result]

\* listeners of every protocol, on two ports
MixedListeners ==
    {Template("HTTP", 80, Nil, Nil, Bound(<<rA>>)),
     Template("HTTP", 443, Ptr(hAX), Nil, Bound(<<rA>>)),
     Template("HTTPS", 443, Ptr(hAX), Terminate(<<"good">>), Bound(<<rA>>)),
     Template("HTTPS", 443, Ptr(hWX), Terminate(<<"missing">>), Bound(<<rW>>)),
     Template("HTTPS", 443, Nil, Nil, Bound(<<rW, rD>>)),
     Template("HTTPS", 80, Ptr(hABX), Terminate(<<"good">>), Bound(<<rB2>>)),
     Template("TCP", 80, Nil, Nil, Bound(<<t1>>)),
     Template("TCP", 443, Nil, Nil, Bound(<<t2>>)),
     Template("TLS", 443, Ptr(hAX), Passthrough, Bound(<<t5>>)),
     Template("UDP", 80, Nil, Nil, Bound(<<>>))}

\* plaintext listeners, all but one on port 80; the routes bound to the first
\* declare no hostname (rN) or translate to no rule (rZ), those of the fourth
\* have hostnames with one vhost name, the sixth contains none of its hosts
HttpListeners ==
    {Template("HTTP", 80, Nil, Nil, Bound(<<rN, rZ>>)),
     Template("HTTP", 80, Ptr(hAX), Nil, Bound(<<rA>>)),
     Template("HTTP", 80, Ptr(hWX), Nil, Bound(<<rB>>)),
     Template("HTTP", 80, Ptr(hWX), Nil, Bound(<<rW, rD>>)),
     Template("HTTP", 80, Ptr(hABX), Nil, Bound(<<rB2>>)),
     Template("HTTP", 80, Ptr(hBY), Nil, Bound(<<rA>>)),
     Template("HTTP", 8080, Ptr(hAX), Nil, Bound(<<rA>>))}

\* TCP and TLS listeners; three routes of distinct age in every input order
TcpListeners ==
    {Template("TCP", 80, Nil, Nil, Bound(p)) : p \in Perms({t1, t2, t3})}
    \cup
    {Template("TCP", 80, Nil, Nil, Bound(<<t2>>)),
     Template("TCP", 80, Nil, Nil, Bound(<<t4>>)),
     Template("TCP", 80, Nil, Nil, Bound(<<>>)),
     Template("TCP", 80, Nil, Nil, Bound(<<rA>>)),
     Template("TCP", 443, Nil, Nil, Bound(<<t1>>)),
     Template("TLS", 80, Ptr(hAX), Passthrough, Bound(<<t3>>)),
     Template("TLS", 80, Nil, Passthrough, Bound(<<t5, t2>>)),
     Template("TLS", 80, Nil, Passthrough, Bound(<<t3, t5, t2>>)),
     Template("TLS", 80, Nil, Passthrough, Bound(<<t5, rA>>)),
     Template("TCP", 80, Nil, Nil, Bound(<<t6>>))}

ModeOnly(certRefs) == Ptr([Mode |-> Nil, CertificateRefs |-> certRefs])

PassthroughWith(certRefs) == Ptr([Mode |-> Ptr("Passthrough"), CertificateRefs |-> certRefs])

\* HTTPS listeners with every outcome of the TLS resolution, and a plaintext one
TlsListeners ==
    {Template("HTTPS", 443, Ptr(hAX), Terminate(<<"good">>), Bound(<<rA>>)),
     Template("HTTPS", 443, Ptr(hWX), Terminate(<<"missing">>), Bound(<<rW>>)),
     Template("HTTPS", 443, Ptr(hABX), Terminate(<<"nogrant">>), Bound(<<rB2>>)),
     Template("HTTPS", 443, Ptr(hAX), Terminate(<<"malformed">>), Bound(<<rA>>)),
     Template("HTTPS", 443, Nil, Terminate(<<"broken">>), Bound(<<rW, rZ>>)),
     Template("HTTPS", 443, Ptr(hAX), Terminate(<<"good", "other">>), Bound(<<rA>>)),
     Template("HTTPS", 443, Ptr(hAX), Terminate(<<>>), Bound(<<rA>>)),
     Template("HTTPS", 443, Ptr(hABX), Terminate(<<"nogrant", "missing">>), Bound(<<rB2>>)),
     Template("HTTPS", 443, Nil, Nil, Bound(<<rA>>)),
     Template("HTTPS", 443, Ptr(hAX), ModeOnly(<<"missing">>), Bound(<<rA>>)),
     Template("HTTPS", 443, Ptr(hABX), PassthroughWith(<<"missing">>), Bound(<<rB2>>)),
     Template("HTTPS", 80, Ptr(hAX), Terminate(<<"missing">>), Bound(<<rA>>)),
     Template("HTTP", 443, Ptr(hAX), Nil, Bound(<<rA>>))}

\* a binding result that carries an error next to its routes
Rejected(routes) == Ptr([Routes |-> routes, Error |-> TRUE])

\* listeners of every supported protocol whose binding result has an error or is
\* nil, next to ones bound without error
BindingListeners ==
    {Template("HTTP", 80, Ptr(hAX), Nil, Rejected(<<rA>>)),
     Template("HTTP", 80, Nil, Nil, Nil),
     Template("HTTP", 80, Ptr(hWX), Nil, Bound(<<rW>>)),
     Template("HTTPS", 443, Ptr(hAX), Terminate(<<"good">>), Rejected(<<rA>>)),
     Template("HTTPS", 443, Nil, Nil, Nil),
     Template("HTTPS", 443, Ptr(hWX), Terminate(<<"missing">>), Rejected(<<rW>>)),
     Template("TCP", 80, Nil, Nil, Rejected(<<t1>>)),
     Template("TCP", 443, Nil, Nil, Nil),
     Template("TLS", 443, Ptr(hAX), Passthrough, Bound(<<t5>>))}

(***************************************************************************)
(* The translation pass.                                                   *)
(***************************************************************************)
Init ==
    /\ pc = "merge"
    /\ input = <<>>
    /\ Listeners = <<>>
    /\ output = <<>>
    /\ reports = <<>>

\* one iteration of the loop of mergeGWListeners
MergeListener(item) ==
    /\ pc = "merge"
    /\ input' = Append(input, item)
    /\ Listeners' = mergeGWListenersStep(Listeners, item)
    /\ UNCHANGED <<pc, output, reports>>

MergeMixed ==
    /\ Len(input) < MaxListeners
    /\ \E t \in MixedListeners : MergeListener(Item(t, Len(input) + 1))

MergeHttp ==
    /\ Len(input) < MaxHttpListeners
    /\ \E t \in HttpListeners : MergeListener(Item(t, Len(input) + 1))

MergeTcp ==
    /\ Len(input) < MaxTcpListeners
    /\ \E t \in TcpListeners : MergeListener(Item(t, Len(input) + 1))

MergeTls ==
    /\ Len(input) < MaxTlsListeners
    /\ \E t \in TlsListeners : MergeListener(Item(t, Len(input) + 1))

MergeBinding ==
    /\ Len(input) < MaxBindingListeners
    /\ \E t \in BindingListeners : MergeListener(Item(t, Len(input) + 1))

\* mergeGWListeners returns: every listener of the Gateway was appended
EndMerge ==
    /\ pc = "merge"
    /\ pc' = "translate"
    /\ UNCHANGED <<input, Listeners, output, reports>>

\* a step that appends the ListenerIR of one MergedListener twice
EmitTwice(t) ==
    /\ output' = output \o <<t.listener, t.listener>>
    /\ reports' = reports \o t.events

\* the ListenerIR is appended to the result; the reporter has taken the calls
Emit(t) ==
    /\ output' = Append(output, t.listener)
    /\ reports' = reports \o t.events

\* one iteration of the loop of translateListeners
TranslateNext ==
    /\ pc = "translate"
    /\ Len(output) < Len(Listeners)
    /\ \E httpOrder \in HttpOrders(Listeners[Len(output) + 1]),
          httpsOrders \in HttpsOrders(Listeners[Len(output) + 1]) :
           Emit(TranslateListener(Listeners[Len(output) + 1], httpOrder, httpsOrders))
    /\ UNCHANGED <<pc, input, Listeners>>

\* TranslateListeners returns
Return ==
    /\ pc = "translate"
    /\ Len(output) = Len(Listeners)
    /\ pc' = "done"
    /\ UNCHANGED <<input, Listeners, output, reports>>

Next == MergeMixed \/ EndMerge \/ TranslateNext \/ Return

Spec == Init /\ [][Next]_vars

NextHttp == MergeHttp \/ EndMerge \/ TranslateNext \/ Return

SpecHttp == Init /\ [][NextHttp]_vars

NextTcp == MergeTcp \/ EndMerge \/ TranslateNext \/ Return

SpecTcp == Init /\ [][NextTcp]_vars

NextTls == MergeTls \/ EndMerge \/ TranslateNext \/ Return

SpecTls == Init /\ [][NextTls]_vars

NextBinding == MergeBinding \/ EndMerge \/ TranslateNext \/ Return

SpecBinding == Init /\ [][NextBinding]_vars

\* TranslateListeners is called again: its aggregate and its result are new
\* values of every call, and the reporter calls are counted from there
CallAgain ==
    /\ pc = "done"
    /\ pc' = "merge"
    /\ input' = <<>>
    /\ Listeners' = <<>>
    /\ output' = <<>>
    /\ reports' = <<>>

NextPasses == Next \/ CallAgain

\* the guard of TranslateNext: the loop of translateListeners has a next element
CanTranslate == pc = "translate" /\ Len(output) < Len(Listeners)

\* WF_vars(TranslateNext) written out, with the guard for ENABLED <<TranslateNext>>_vars
\* (every step of TranslateNext lengthens output)
TranslateFair == []<>(~CanTranslate) \/ []<><<TranslateNext>>_vars

\* the loops of a pass run over finite slices and no step waits for anything: the
\* loop of mergeGWListeners ends, every iteration of translateListeners is taken
\* and the function returns; a further call is up to the caller
SpecPasses ==
    Init /\ [][NextPasses]_vars /\ WF_vars(EndMerge) /\ WF_vars(Return) /\ TranslateFair

(***************************************************************************)
(* isHostContained on its own: one call with a host and a listener         *)
(* hostname; input holds the arguments and output the result.              *)
(***************************************************************************)
HostAlphabet == {"*", ".", "a", "b"}

RECURSIVE StringsUpTo(_)
StringsUpTo(n) ==
    IF n = 0 THEN {<<>>}
    ELSE StringsUpTo(n - 1) \cup
         {Append(w, c) : w \in {v \in StringsUpTo(n - 1) : Len(v) = n - 1}, c \in HostAlphabet}

fooExampleCom == <<"f", "o", "o", ".", "e", "x", "a", "m", "p", "l", "e", ".", "c", "o", "m">>

exampleCom == <<"e", "x", "a", "m", "p", "l", "e", ".", "c", "o", "m">>

starExampleCom == <<"*", ".", "e", "x", "a", "m", "p", "l", "e", ".", "c", "o", "m">>

Hosts == StringsUpTo(MaxHostLen) \cup {fooExampleCom, exampleCom, starExampleCom}

ListenerHostnames == {Nil} \cup {Ptr(l) : l \in Hosts}

InitHost ==
    /\ pc = "host"
    /\ input = <<>>
    /\ Listeners = <<>>
    /\ output = <<>>
    /\ reports = <<>>

\* one call of isHostContained
CallIsHostContained ==
    /\ pc = "host"
    /\ \E host \in Hosts, maybeLhost \in ListenerHostnames :
           /\ input' = <<host, maybeLhost>>
           /\ output' = <<isHostContained(host, maybeLhost)>>
    /\ pc' = "contained"
    /\ UNCHANGED <<Listeners, reports>>

NextHost == CallIsHostContained

SpecHost == InitHost /\ [][NextHost]_vars

(***************************************************************************)
(* What the claims speak of: the listeners given so far, by port and       *)
(* protocol, in input order.                                               *)
(***************************************************************************)
RECURSIVE Given(_, _, _)
Given(items, port, protocols) ==
    IF items = <<>> THEN <<>>
    ELSE IF Head(items).listener.Port = port /\ Head(items).listener.Protocol \in protocols
         THEN <<Head(items)>> \o Given(Tail(items), port, protocols)
         ELSE Given(Tail(items), port, protocols)

RoutesOf(item) == IF item.result = Nil THEN <<>> ELSE Deref(item.result).Routes

\* the plaintext chain of a ListenerIR carries the listener's name, an HTTPS chain
\* the key of its Gateway listener
PlainChains(ir) ==
    {i \in DOMAIN ir.HttpFilterChain : ir.HttpFilterChain[i].FilterChainName = ir.Name}

RECURSIVE SecureChains(_, _)
SecureChains(chains, name) ==
    IF chains = <<>> THEN <<>>
    ELSE IF Head(chains).FilterChainName # name
         THEN <<Head(chains)>> \o SecureChains(Tail(chains), name)
         ELSE SecureChains(Tail(chains), name)

NamesAscending(vhosts) ==
    \A i \in 1..(Len(vhosts) - 1) : StrLess(vhosts[i].Name, vhosts[i + 1].Name)

\* the routes bound to these listeners
BoundRoutes(items) == UNION {Range(RoutesOf(items[i])) : i \in DOMAIN items}

\* the hostnames the routes of these listeners declare
DeclaredHostnames(items) == UNION {Range(r.Hostnames) : r \in BoundRoutes(items)}

\* the hosts of the routes that translate to a rule, "*" for a route declaring none
RoutedHosts(items) ==
    UNION {IF r.Translated = 0 THEN {}
           ELSE IF r.Hostnames = <<>> THEN {Wildcard}
           ELSE Range(r.Hostnames) : r \in BoundRoutes(items)}

ListenerNameOfPort(port) ==
    CASE port = 80 -> <<"l", "i", "s", "t", "e", "n", "e", "r", "~", "8", "0">>
      [] port = 443 -> <<"l", "i", "s", "t", "e", "n", "e", "r", "~", "4", "4", "3">>
      [] port = 8080 -> <<"l", "i", "s", "t", "e", "n", "e", "r", "~", "8", "0", "8", "0">>

VhostNamesOf(port, hosts) ==
    {SanitizeForEnvoy(ListenerNameOfPort(port) \o <<"~">> \o h) : h \in hosts}

(* C1 as stated: the plaintext listeners of a port are merged into exactly one
   HTTP filter chain, which holds as many virtual hosts as their routes declare
   distinct hostnames, sorted ascending by vhost name. *)
C1_AsStated ==
    \A k \in DOMAIN output :
        LET plain == Given(input, output[k].BindPort, {"HTTP"})
        IN  plain # <<>> =>
                /\ Cardinality(PlainChains(output[k])) = 1
                /\ \A i \in PlainChains(output[k]) :
                       /\ Len(output[k].HttpFilterChain[i].Vhosts) =
                              Cardinality(DeclaredHostnames(plain))
                       /\ NamesAscending(output[k].HttpFilterChain[i].Vhosts)

(* C1 amended: the plaintext listeners of a port are merged into exactly one
   HTTP filter chain (never zero, never more); it holds exactly one virtual host
   per distinct vhost name among the hosts of the bound routes that translate to
   at least one rule ("*" for a route that declares no hostname), sorted
   ascending by vhost name. *)
C1_HttpMerge ==
    \A k \in DOMAIN output :
        LET plain == Given(input, output[k].BindPort, {"HTTP"})
        IN  /\ Cardinality(PlainChains(output[k])) = IF plain # <<>> THEN 1 ELSE 0
            /\ \A i \in PlainChains(output[k]) :
                   LET vhosts == output[k].HttpFilterChain[i].Vhosts
                   IN  /\ {vhosts[j].Name : j \in DOMAIN vhosts} =
                              VhostNamesOf(output[k].BindPort, RoutedHosts(plain))
                       /\ Len(vhosts) =
                              Cardinality(VhostNamesOf(output[k].BindPort, RoutedHosts(plain)))
                       /\ NamesAscending(vhosts)

\* three plaintext listeners of one port were merged into a chain of four vhosts
C1_Witness ==
    \E k \in DOMAIN output :
        /\ Len(Given(input, output[k].BindPort, {"HTTP"})) = 3
        /\ \E i \in PlainChains(output[k]) : Len(output[k].HttpFilterChain[i].Vhosts) = 4

\* the HTTPS listeners among items whose TLS resolution returns no error
RECURSIVE Resolving(_)
Resolving(items) ==
    IF items = <<>> THEN <<>>
    ELSE IF translateSslConfig(GatewayNamespace, Head(items).listener.TLS).err = NoError
         THEN <<Head(items)>> \o Resolving(Tail(items))
         ELSE Resolving(Tail(items))

KeyOf(item) == GenerateRouteKey(item.listener.Parent, item.listener.Name)

(* C2: the HTTPS listeners of a port whose TLS resolution succeeds give exactly
   one HTTPS filter chain each, in listener input order: chain i carries the key
   and only the hosts of the i-th of them, and its SNI matcher is that listener's
   hostname, or empty when it declares none. *)
C2_HttpsNotMerged ==
    \A k \in DOMAIN output :
        LET ok == Resolving(Given(input, output[k].BindPort, {"HTTPS"}))
            chains == SecureChains(output[k].HttpFilterChain, output[k].Name)
        IN  /\ Len(chains) = Len(ok)
            /\ \A i \in DOMAIN chains :
                   /\ chains[i].FilterChainName = KeyOf(ok[i])
                   /\ chains[i].Matcher.SniDomains =
                          IF ok[i].listener.Hostname = Nil THEN <<>>
                          ELSE <<ok[i].listener.Hostname[1]>>
                   /\ {chains[i].Vhosts[j].Hostname : j \in DOMAIN chains[i].Vhosts}
                          \subseteq RoutedHosts(<<ok[i]>>)

\* a port with two HTTPS chains, one with an SNI matcher and one without
C2_Witness ==
    \E k \in DOMAIN output :
        LET chains == SecureChains(output[k].HttpFilterChain, output[k].Name)
        IN  /\ Len(Given(input, output[k].BindPort, {"HTTPS"})) >= 2
            /\ Len(chains) = 2
            /\ chains[1].Matcher.SniDomains # <<>>
            /\ chains[2].Matcher.SniDomains = <<>>
            /\ chains[2].Vhosts # <<>>

\* the ports of the listeners of a supported protocol, each at its first appearance
RECURSIVE FirstSeenPorts(_, _)
FirstSeenPorts(items, seen) ==
    IF items = <<>> THEN <<>>
    ELSE IF Head(items).listener.Protocol \notin {"HTTP", "HTTPS", "TCP", "TLS"}
            \/ Head(items).listener.Port \in seen
         THEN FirstSeenPorts(Tail(items), seen)
         ELSE <<Head(items).listener.Port>>
                  \o FirstSeenPorts(Tail(items), seen \cup {Head(items).listener.Port})

(* C3: no two MergedListeners have the same port; the MergedListeners, and the
   ListenerIRs translated from them, are one per distinct port of the HTTP,
   HTTPS, TCP and TLS listeners given, in the order in which the ports first
   appear, each ListenerIR named "listener~{port}"; the pass returns all of them. *)
C3_OnePerPort ==
    LET ports == FirstSeenPorts(input, {})
    IN  /\ \A i, j \in DOMAIN Listeners : Listeners[i].port = Listeners[j].port => i = j
        /\ [i \in DOMAIN Listeners |-> Listeners[i].port] = ports
        /\ Len(output) <= Len(ports)
        /\ \A k \in DOMAIN output :
               /\ output[k].BindPort = ports[k]
               /\ output[k].Name = ListenerNameOfPort(ports[k])
        /\ pc = "done" => Len(output) = Len(ports)

\* three listeners of three protocols on two ports, the first port coming back
C3_Witness ==
    /\ pc = "done"
    /\ Len(input) = 3
    /\ Len(output) = 2
    /\ input[1].listener.Port = input[3].listener.Port
    /\ input[1].listener.Port # input[2].listener.Port
    /\ Cardinality({input[i].listener.Protocol : i \in DOMAIN input} \cap SupportedProtocols) = 3

\* the HTTPS listeners among items whose TLS resolution returns an error
RECURSIVE Failing(_)
Failing(items) ==
    IF items = <<>> THEN <<>>
    ELSE IF translateSslConfig(GatewayNamespace, Head(items).listener.TLS).err # NoError
         THEN <<Head(items)>> \o Failing(Tail(items))
         ELSE Failing(Tail(items))

Reported(who, type, status) ==
    \E e \in DOMAIN reports :
        /\ reports[e].kind = "listener"
        /\ reports[e].who = who
        /\ reports[e].cond.Type = type
        /\ reports[e].cond.Status = status

(* C4 as stated: of the HTTPS listeners of a translated port, those whose TLS
   resolution fails are the only ones without a chain, each of them has
   ResolvedRefs=False and Programmed=False on its own reporter, and no reporter of
   another listener has a ResolvedRefs condition. *)
C4_AsStated ==
    /\ \A k \in DOMAIN output :
           LET secure == Given(input, output[k].BindPort, {"HTTPS"})
               chains == SecureChains(output[k].HttpFilterChain, output[k].Name)
           IN  /\ Len(chains) = Len(secure) - Len(Failing(secure))
               /\ \A f \in Range(Failing(secure)) :
                      /\ \A i \in DOMAIN chains : chains[i].FilterChainName # KeyOf(f)
                      /\ Reported(ListenerReporterOf(f.listener), "ResolvedRefs", "False")
                      /\ Reported(ListenerReporterOf(f.listener), "Programmed", "False")
    /\ \A e \in DOMAIN reports :
           reports[e].kind = "listener" /\ reports[e].cond.Type = "ResolvedRefs" =>
               \E i \in DOMAIN input :
                   /\ input[i].listener.Protocol = "HTTPS"
                   /\ <<input[i]>> = Failing(<<input[i]>>)
                   /\ reports[e].who = ListenerReporterOf(input[i].listener)

\* the route of a non-empty list with the earliest creation timestamp
Earliest(routes) ==
    CHOOSE r \in Range(routes) : \A o \in Range(routes) : r.CreationTimestamp <= o.CreationTimestamp

RouteReported(route, parentRef, type, status, reason) ==
    \E e \in DOMAIN reports :
        /\ reports[e].kind = "route"
        /\ reports[e].who = [Route |-> route.Name, ParentRef |-> parentRef]
        /\ reports[e].cond.Type = type
        /\ reports[e].cond.Status = status
        /\ reports[e].cond.Reason = reason

Resolvable(backend) == backend.Err = "" /\ backend.HasObject

(* C5 as stated: for the TCPRoute or TLSRoute selected on a TCP/TLS listener of a
   translated port: when it does not declare exactly one rule, no TCP IR is
   emitted for it and Accepted=False with reason UnsupportedValue is set on its
   parent refs; when it declares one rule and has a resolvable backend, a TCP IR
   with its backends is emitted and Accepted=True is set on every parent ref. *)
C5_AsStated ==
    \A k \in DOMAIN output :
        \A item \in Range(Given(input, output[k].BindPort, {"TCP", "TLS"})) :
            RoutesOf(item) # <<>> /\ Earliest(RoutesOf(item)).Kind \in {"TCPRoute", "TLSRoute"} =>
                LET r == Earliest(RoutesOf(item))
                    emitted == {i \in DOMAIN output[k].TcpFilterChain :
                                   output[k].TcpFilterChain[i].FilterChainName =
                                       TcpHostName(output[k].Name, r)}
                IN  IF r.SpecRules # 1
                    THEN /\ emitted = {}
                         /\ \A p \in Range(r.ParentRefs) :
                                RouteReported(r, p, "Accepted", "False", "UnsupportedValue")
                    ELSE (\E b \in Range(r.Backends) : Resolvable(b)) =>
                             /\ emitted # {}
                             /\ \A i \in emitted :
                                    output[k].TcpFilterChain[i].BackendRefs = r.Backends
                             /\ \A p \in Range(r.ParentRefs) :
                                    RouteReported(r, p, "Accepted", "True", "Accepted")

(* C6 as stated: the ListenerIR a MergedListener translates to is the same for
   every order in which the host maps are iterated. *)
C6_AsStated ==
    pc = "translate" /\ Len(output) < Len(Listeners) =>
        LET ml == Listeners[Len(output) + 1]
            first == TranslateListener(ml, CHOOSE o \in HttpOrders(ml) : TRUE,
                                       CHOOSE o \in HttpsOrders(ml) : TRUE).listener
        IN  \A httpOrder \in HttpOrders(ml), httpsOrders \in HttpsOrders(ml) :
                TranslateListener(ml, httpOrder, httpsOrders).listener = first

\* the hosts of the routes that translate to a rule, in the order routes are scanned
RECURSIVE ScanRoutes(_)
ScanRoutes(routes) ==
    IF routes = <<>> THEN <<>>
    ELSE (IF Head(routes).Translated = 0 THEN <<>>
          ELSE IF Head(routes).Hostnames = <<>> THEN <<Wildcard>>
          ELSE Head(routes).Hostnames) \o ScanRoutes(Tail(routes))

RECURSIVE ScanHosts(_)
ScanHosts(items) ==
    IF items = <<>> THEN <<>> ELSE ScanRoutes(RoutesOf(Head(items))) \o ScanHosts(Tail(items))

\* the first host of the scan with the vhost name of host h
FirstSeen(scan, parentName, h) ==
    scan[CHOOSE i \in DOMAIN scan :
            /\ makeVhostName(parentName, scan[i]) = makeVhostName(parentName, h)
            /\ \A j \in 1..(i - 1) :
                   makeVhostName(parentName, scan[j]) # makeVhostName(parentName, h)]

UniqueFirstSeen(vhosts, scan, parentName) ==
    /\ \A i, j \in DOMAIN vhosts : vhosts[i].Name = vhosts[j].Name => i = j
    /\ \A i \in DOMAIN vhosts : vhosts[i].Hostname = FirstSeen(scan, parentName, vhosts[i].Hostname)

(* C7 as stated: in every emitted HTTP or HTTPS filter chain the vhost names are
   unique, and the vhost of a name is that of the first host with this name in
   the scan of the parents and their routes in input order. *)
C7_AsStated ==
    \A k \in DOMAIN output :
        LET ok == Resolving(Given(input, output[k].BindPort, {"HTTPS"}))
            chains == SecureChains(output[k].HttpFilterChain, output[k].Name)
        IN  /\ \A i \in PlainChains(output[k]) :
                   UniqueFirstSeen(output[k].HttpFilterChain[i].Vhosts,
                                   ScanHosts(Given(input, output[k].BindPort, {"HTTP"})),
                                   output[k].Name)
            /\ \A i \in DOMAIN chains :
                   UniqueFirstSeen(chains[i].Vhosts, ScanHosts(<<ok[i]>>), KeyOf(ok[i]))

IsWildcard(hostname) == hostname # Nil /\ HasPrefix(Deref(hostname), <<"*", ".">>)

(* C8 as stated: in the plaintext chain of a translated port, a vhost whose host
   equals the hostname of one listener and is matched by the "*.suffix" hostname
   of another takes its parent reference and attached policies from a listener
   whose hostname equals the host. *)
C8_AsStated ==
    \A k \in DOMAIN output :
        LET parents == Given(input, output[k].BindPort, {"HTTP"})
        IN  \A i \in PlainChains(output[k]) :
                \A v \in Range(output[k].HttpFilterChain[i].Vhosts) :
                    (/\ \E e \in Range(parents) : e.listener.Hostname = Ptr(v.Hostname)
                     /\ \E w \in Range(parents) :
                            /\ IsWildcard(w.listener.Hostname)
                            /\ w.listener.Hostname # Ptr(v.Hostname)
                            /\ isHostContained(v.Hostname, w.listener.Hostname))
                    => \E e \in Range(parents) :
                           /\ e.listener.Hostname = Ptr(v.Hostname)
                           /\ v.ParentRef = e.listener
                           /\ v.AttachedPolicies = e.listener.AttachedPolicies

\* the parents whose hostname contains the host
Matching(parents, host) ==
    {j \in DOMAIN parents : isHostContained(host, parents[j].listener.Hostname)}

LengthOf(hostname) == IF hostname = Nil THEN 0 ELSE Len(Deref(hostname))

\* the earliest of the matching parents with the longest hostname
Longest(parents, host) ==
    CHOOSE j \in Matching(parents, host) :
        /\ \A m \in Matching(parents, host) :
               LengthOf(parents[m].listener.Hostname) <= LengthOf(parents[j].listener.Hostname)
        /\ \A m \in Matching(parents, host) :
               m < j => LengthOf(parents[m].listener.Hostname) < LengthOf(parents[j].listener.Hostname)

(* C9: in the plaintext chain of a translated port every vhost takes its parent
   reference and attached policies from the parent with the longest hostname
   among the parents whose hostname contains the vhost's host, the earliest of
   them in input order when several are equally long; a parent without hostname
   is taken only when no parent with a hostname contains the host. *)
C9_LongestParent ==
    \A k \in DOMAIN output :
        LET parents == Given(input, output[k].BindPort, {"HTTP"})
        IN  \A i \in PlainChains(output[k]) :
                \A v \in Range(output[k].HttpFilterChain[i].Vhosts) :
                    IF Matching(parents, v.Hostname) = {}
                    THEN v.ParentRef = ZeroListener /\ v.AttachedPolicies = NoPolicies
                    ELSE /\ v.ParentRef = parents[Longest(parents, v.Hostname)].listener
                         /\ v.AttachedPolicies =
                                parents[Longest(parents, v.Hostname)].listener.AttachedPolicies
                         /\ v.ParentRef.Hostname = Nil =>
                                \A m \in Matching(parents, v.Hostname) :
                                    parents[m].listener.Hostname = Nil

\* a vhost with three matching parents: one without hostname and two equally long
\* ones, of which the earlier is its parent
C9_Witness ==
    \E k \in DOMAIN output :
        LET parents == Given(input, output[k].BindPort, {"HTTP"})
        IN  \E i \in PlainChains(output[k]) :
                \E v \in Range(output[k].HttpFilterChain[i].Vhosts) :
                    /\ Cardinality(Matching(parents, v.Hostname)) >= 3
                    /\ \E m \in Matching(parents, v.Hostname) : parents[m].listener.Hostname = Nil
                    /\ \E j, m \in Matching(parents, v.Hostname) :
                           /\ j < m
                           /\ parents[j].listener.Hostname # Nil
                           /\ LengthOf(parents[j].listener.Hostname) =
                                  LengthOf(parents[m].listener.Hostname)
                           /\ v.ParentRef = parents[j].listener

DistinctTimestamps(routes) ==
    \A i, j \in DOMAIN routes :
        routes[i].CreationTimestamp = routes[j].CreationTimestamp => i = j

\* the TCP/TLS listeners of a port with routes of pairwise distinct timestamps
Selecting(items, port) ==
    {item \in Range(Given(items, port, {"TCP", "TLS"})) :
        RoutesOf(item) # <<>> /\ DistinctTimestamps(RoutesOf(item))}

(* C10: of the routes bound to a TCP/TLS listener, with pairwise distinct creation
   timestamps, only the one with the earliest timestamp is translated: every TCP
   IR of a translated port and every route condition is that of the earliest
   route of one of the port's listeners, an earliest route with one rule and
   backends has its TCP IR, and the translation of a chain is the same for every
   permutation of its routes. *)
C10_EarliestOnly ==
    /\ \A k \in DOMAIN output :
           /\ \A c \in Range(output[k].TcpFilterChain) :
                  \E item \in Selecting(input, output[k].BindPort) :
                      /\ c.FilterChainName = TcpHostName(output[k].Name, Earliest(RoutesOf(item)))
                      /\ c.BackendRefs = Earliest(RoutesOf(item)).Backends
           /\ \A item \in Selecting(input, output[k].BindPort) :
                  LET r == Earliest(RoutesOf(item))
                  IN  r.Kind \in {"TCPRoute", "TLSRoute"} /\ r.SpecRules = 1 /\ r.Backends # <<>> =>
                          \E c \in Range(output[k].TcpFilterChain) :
                              c.FilterChainName = TcpHostName(output[k].Name, r)
    /\ \A e \in DOMAIN reports :
           reports[e].kind = "route" =>
               \E item \in Range(input) :
                   /\ RoutesOf(item) # <<>>
                   /\ reports[e].who.Route = Earliest(RoutesOf(item)).Name
    /\ pc = "translate" /\ Len(output) < Len(Listeners) =>
           LET ml == Listeners[Len(output) + 1]
           IN  \A i \in DOMAIN ml.TcpFilterChains :
                   LET tc == ml.TcpFilterChains[i]
                   IN  DistinctTimestamps(tc.parents.routesWithHosts) =>
                           \A p \in Perms(Range(tc.parents.routesWithHosts)) :
                               translateTcpFilterChain(
                                   [tc EXCEPT !.parents.routesWithHosts = p], ml.name)
                               = translateTcpFilterChain(tc, ml.name)

\* a translated listener with three routes whose earliest route, not the first of
\* its list, has its TCP IR
C10_Witness ==
    \E k \in DOMAIN output :
        \E item \in Selecting(input, output[k].BindPort) :
            /\ Len(RoutesOf(item)) >= 3
            /\ Earliest(RoutesOf(item)) # RoutesOf(item)[1]
            /\ \E c \in Range(output[k].TcpFilterChain) :
                   c.FilterChainName = TcpHostName(output[k].Name, Earliest(RoutesOf(item)))

\* Programmed=False/Invalid with the no-backends message on this reporter
NotProgrammedTcp(who) ==
    \E e \in DOMAIN reports :
        /\ reports[e].kind = "listener"
        /\ reports[e].who = who
        /\ reports[e].cond = [Type |-> "Programmed", Status |-> "False", Reason |-> "Invalid",
                              Message |-> TcpTlsListenerNoBackendsMessage]

(* C11: for a translated port with TCP/TLS listeners: when the port has no TCP
   IR, the reporter of every one of its TCP/TLS listeners has Programmed=False,
   reason Invalid, with the no-backends message; when it has a TCP IR, none of
   them has, those of the chains without IR included. *)
C11_AllOrNone ==
    \A k \in DOMAIN output :
        \A item \in Range(Given(input, output[k].BindPort, {"TCP", "TLS"})) :
            NotProgrammedTcp(ListenerReporterOf(item.listener)) <=> output[k].TcpFilterChain = <<>>

\* a port with two TCP/TLS listeners of which one has its TCP IR and the other has
\* none, and neither reporter has the condition
C11_Witness ==
    \E k \in DOMAIN output :
        LET items == Given(input, output[k].BindPort, {"TCP", "TLS"})
        IN  /\ Len(items) >= 2
            /\ Len(output[k].TcpFilterChain) = 1
            /\ \A i \in DOMAIN items : ~NotProgrammedTcp(ListenerReporterOf(items[i].listener))

IsResolvedRefsFalse(e) ==
    /\ e.kind = "listener"
    /\ e.cond.Type = "ResolvedRefs"
    /\ e.cond.Status = "False"

\* Programmed=False of a TLS resolution failure: not that of a port without TCP IR
IsProgrammedFalse(e) ==
    /\ e.kind = "listener"
    /\ e.cond.Type = "Programmed"
    /\ e.cond.Status = "False"
    /\ e.cond.Message # TcpTlsListenerNoBackendsMessage

\* the HTTPS listeners of the ports translated so far whose TLS resolution fails
RECURSIVE FailedSoFar(_)
FailedSoFar(k) ==
    IF k = 0 THEN 0
    ELSE Len(Failing(Given(input, output[k].BindPort, {"HTTPS"}))) + FailedSoFar(k - 1)

InTerminateMode(tls) ==
    tls # Nil /\ Deref(tls).Mode # Nil /\ Deref(Deref(tls).Mode) = "Terminate"

(* C12: every failed TLS resolution of an HTTPS chain sets ResolvedRefs=False and
   right after it Programmed=False on the same reporter with the same message,
   neither occurs without the other, and the chain is not in the ListenerIR;
   every HTTPS chain in the output is that of a listener whose TLS resolution
   has no error, and carries a TLS bundle when the listener is in Terminate
   mode. *)
C12_BothAndDropped ==
    /\ \A e \in DOMAIN reports :
           IsResolvedRefsFalse(reports[e]) =>
               /\ e + 1 \in DOMAIN reports
               /\ IsProgrammedFalse(reports[e + 1])
               /\ reports[e + 1].who = reports[e].who
               /\ reports[e + 1].cond.Message = reports[e].cond.Message
    /\ \A e \in DOMAIN reports :
           IsProgrammedFalse(reports[e]) =>
               /\ e - 1 \in DOMAIN reports
               /\ IsResolvedRefsFalse(reports[e - 1])
    /\ Cardinality({e \in DOMAIN reports : IsResolvedRefsFalse(reports[e])})
           = FailedSoFar(Len(output))
    /\ \A k \in DOMAIN output :
           LET secure == Given(input, output[k].BindPort, {"HTTPS"})
           IN  \A c \in Range(SecureChains(output[k].HttpFilterChain, output[k].Name)) :
                   \E item \in Range(secure) :
                       /\ KeyOf(item) = c.FilterChainName
                       /\ <<item>> # Failing(<<item>>)
                       /\ InTerminateMode(item.listener.TLS) => c.TLS # Nil

\* a translated port where one HTTPS chain failed, with both conditions, and
\* another in Terminate mode is emitted with its bundle
C12_Witness ==
    \E k \in DOMAIN output :
        LET secure == Given(input, output[k].BindPort, {"HTTPS"})
        IN  /\ Failing(secure) # <<>>
            /\ \E e \in DOMAIN reports : IsResolvedRefsFalse(reports[e])
            /\ \E e \in DOMAIN reports : IsProgrammedFalse(reports[e])
            /\ \E c \in Range(SecureChains(output[k].HttpFilterChain, output[k].Name)) : c.TLS # Nil

\* a TCP/TLS listener whose earliest route is a TCPRoute or TLSRoute with one rule
\* and backends
Translatable(item) ==
    /\ RoutesOf(item) # <<>>
    /\ Earliest(RoutesOf(item)).Kind \in {"TCPRoute", "TLSRoute"}
    /\ Earliest(RoutesOf(item)).SpecRules = 1
    /\ Earliest(RoutesOf(item)).Backends # <<>>

RECURSIVE TcpNames(_, _)
TcpNames(items, parentName) ==
    IF items = <<>> THEN <<>>
    ELSE (IF Translatable(Head(items))
          THEN <<TcpHostName(parentName, Earliest(RoutesOf(Head(items))))>>
          ELSE <<>>) \o TcpNames(Tail(items), parentName)

\* the names of the chains a port has when every chain is translated on its own
ChainNames(items, port, parentName) ==
    (IF Given(items, port, {"HTTP"}) # <<>> THEN <<parentName>> ELSE <<>>)
    \o [i \in DOMAIN Resolving(Given(items, port, {"HTTPS"})) |->
           KeyOf(Resolving(Given(items, port, {"HTTPS"}))[i])]

Supported(items) ==
    {i \in DOMAIN items : items[i].listener.Protocol \in {"HTTP", "HTTPS", "TCP", "TLS"}}

(* C13: a failed chain stops nothing: every translated port has the HTTP chain of
   its plaintext listeners, the chain of every HTTPS listener whose TLS
   resolves and the TCP IR of every TCP/TLS listener with a translatable
   route, whichever of its other chains failed; the ports are translated in
   order, and when the pass is done there is a ListenerIR for every port of the
   given listeners, also for one all of whose chains failed. *)
C13_SiblingsSurvive ==
    /\ Len(output) <= Len(Listeners)
    /\ \A k \in DOMAIN output :
           /\ output[k].BindPort = Listeners[k].port
           /\ [i \in DOMAIN output[k].HttpFilterChain |-> output[k].HttpFilterChain[i].FilterChainName]
                  = ChainNames(input, output[k].BindPort, output[k].Name)
           /\ [i \in DOMAIN output[k].TcpFilterChain |-> output[k].TcpFilterChain[i].FilterChainName]
                  = TcpNames(Given(input, output[k].BindPort, {"TCP", "TLS"}), output[k].Name)
    /\ pc = "done" =>
           {output[k].BindPort : k \in DOMAIN output}
               = {input[i].listener.Port : i \in Supported(input)}

\* the pass is done; a port whose first HTTPS listener failed has a chain of a
\* later listener, and a port translated after it has its chain
C13_Witness ==
    /\ pc = "done"
    /\ \E k \in DOMAIN output :
           LET secure == Given(input, output[k].BindPort, {"HTTPS"})
           IN  /\ secure # <<>>
               /\ <<secure[1]>> = Failing(<<secure[1]>>)
               /\ Len(output[k].HttpFilterChain) + Len(output[k].TcpFilterChain) >= 1
               /\ k + 1 \in DOMAIN output
               /\ Len(output[k + 1].HttpFilterChain) + Len(output[k + 1].TcpFilterChain) >= 1

\* mergeGWListeners over a whole list of (listener, result) pairs
RECURSIVE MergeAll(_, _)
MergeAll(ls, items) ==
    IF items = <<>> THEN ls ELSE MergeAll(mergeGWListenersStep(ls, Head(items)), Tail(items))

\* the pairs whose listener has one of the four protocols
RECURSIVE SupportedOnly(_)
SupportedOnly(items) ==
    IF items = <<>> THEN <<>>
    ELSE IF Head(items).listener.Protocol \in {"HTTP", "HTTPS", "TCP", "TLS"}
         THEN <<Head(items)>> \o SupportedOnly(Tail(items))
         ELSE SupportedOnly(Tail(items))

OtherProtocols == {"", "UDP", "http"}

(* C14: AppendListener with a protocol other than HTTP, HTTPS, TCP, TLS, the
   unset one included, returns the "unsupported protocol" error and the
   aggregate as it was; the aggregate built from the given listeners is the one
   built from those with a supported protocol alone, and no ListenerIR and no
   reporter call names a listener of another protocol. *)
C14_Unsupported ==
    /\ \A i \in DOMAIN input, protocol \in OtherProtocols :
           LET r == AppendListener(Listeners, [input[i].listener EXCEPT !.Protocol = protocol],
                                   RoutesOf(input[i]), ListenerReporterOf(input[i].listener))
           IN  r.Listeners = Listeners /\ r.err = <<"unsupported protocol: ", protocol>>
    /\ \A i \in DOMAIN input :
           AppendListener(Listeners, input[i].listener, RoutesOf(input[i]),
                          ListenerReporterOf(input[i].listener)).err # <<>>
               <=> i \notin Supported(input)
    /\ Listeners = MergeAll(<<>>, SupportedOnly(input))
    /\ \A i \in DOMAIN input \ Supported(input) :
           /\ \A k \in DOMAIN output :
                  /\ output[k].PolicyAncestorRef # input[i].listener.PolicyAncestorRef
                  /\ \A c \in Range(output[k].HttpFilterChain) :
                         /\ c.FilterChainName # KeyOf(input[i])
                         /\ c.AttachedPolicies # input[i].listener.AttachedPolicies
           /\ \A e \in DOMAIN reports :
                  reports[e].who # ListenerReporterOf(input[i].listener)

\* the pass is done for a listener of another protocol given between two
\* supported ones, both on its port, and the port has their chains
C14_Witness ==
    /\ pc = "done"
    /\ \E i \in DOMAIN input \ Supported(input) :
           /\ i - 1 \in Supported(input)
           /\ i + 1 \in Supported(input)
           /\ input[i - 1].listener.Port = input[i].listener.Port
           /\ input[i + 1].listener.Port = input[i].listener.Port
           /\ \E k \in DOMAIN output :
                  /\ output[k].BindPort = input[i].listener.Port
                  /\ Len(output[k].HttpFilterChain) + Len(output[k].TcpFilterChain) >= 2

(* C15 as stated: a TCP/TLS listener of a translated port to which no route is
   bound adds no TCP IR to the port, and no condition with status False is set
   on its reporter. *)
C15_AsStated ==
    \A k \in DOMAIN output :
        LET items == Given(input, output[k].BindPort, {"TCP", "TLS"})
        IN  /\ Len(output[k].TcpFilterChain) <=
                   Cardinality({i \in DOMAIN items : RoutesOf(items[i]) # <<>>})
            /\ \A i \in DOMAIN items :
                   RoutesOf(items[i]) = <<>> =>
                       \A e \in DOMAIN reports :
                           ~(/\ reports[e].kind = "listener"
                             /\ reports[e].who = ListenerReporterOf(items[i].listener)
                             /\ reports[e].cond.Status = "False")

\* the error a backend is reported with: its own, or "not found" for a missing object
ErrorOf(backend) == IF backend.Err # "" THEN backend.Err ELSE "not found"

BackendErrorReported(route, parentRef, backend) ==
    \E e \in DOMAIN reports :
        /\ reports[e].kind = "route"
        /\ reports[e].who = [Route |-> route.Name, ParentRef |-> parentRef]
        /\ reports[e].cond.Type = "ResolvedRefs"
        /\ reports[e].cond.Status = "False"
        /\ reports[e].cond.Message = <<ErrorOf(backend)>>

(* C16: the TCP IR of a selected TCPRoute or TLSRoute with one rule has the
   backends the route declares, all of them and in their order, those with a
   resolution error or without object included; every such backend has its
   error condition on every parent ref of the route, and no other backend has
   one. *)
C16_BackendsKept ==
    /\ \A k \in DOMAIN output :
           \A item \in Selecting(input, output[k].BindPort) :
               Translatable(item) =>
                   LET r == Earliest(RoutesOf(item))
                   IN  /\ \E c \in Range(output[k].TcpFilterChain) :
                              c.FilterChainName = TcpHostName(output[k].Name, r)
                       /\ \A c \in Range(output[k].TcpFilterChain) :
                              c.FilterChainName = TcpHostName(output[k].Name, r) =>
                                  c.BackendRefs = r.Backends
                       /\ \A b \in Range(r.Backends), p \in Range(r.ParentRefs) :
                              ~Resolvable(b) => BackendErrorReported(r, p, b)
    /\ \A e \in DOMAIN reports :
           reports[e].kind = "route" /\ reports[e].cond.Type = "ResolvedRefs" =>
               \E item \in Range(input) :
                   /\ Translatable(item)
                   /\ reports[e].who.Route = Earliest(RoutesOf(item)).Name
                   /\ reports[e].who.ParentRef \in Range(Earliest(RoutesOf(item)).ParentRefs)
                   /\ \E b \in Range(Earliest(RoutesOf(item)).Backends) :
                          ~Resolvable(b) /\ reports[e].cond.Message = <<ErrorOf(b)>>

\* a TCP IR with three backends of which one has no object and one an error, of a
\* route with two parent refs
C16_Witness ==
    \E k \in DOMAIN output :
        \E item \in Selecting(input, output[k].BindPort) :
            /\ Translatable(item)
            /\ Len(Earliest(RoutesOf(item)).ParentRefs) >= 2
            /\ \E b \in Range(Earliest(RoutesOf(item)).Backends) : b.Err # ""
            /\ \E b \in Range(Earliest(RoutesOf(item)).Backends) : b.Err = "" /\ ~b.HasObject
            /\ \E c \in Range(output[k].TcpFilterChain) : Len(c.BackendRefs) >= 3

IsListenerCondition(e, who, types) ==
    e.kind = "listener" /\ e.who = who /\ e.cond.Type \in types

(* C17: an HTTPS listener of a translated port without TLS config, without mode
   or in a mode other than Terminate has its chain in the ListenerIR, without
   TLS bundle; no ResolvedRefs or Programmed condition is set because of it:
   there are as many ResolvedRefs conditions as failing listeners in Terminate
   mode, and none on its reporter when no HTTPS listener of its port fails. *)
C17_SoftNoOp ==
    /\ \A k \in DOMAIN output :
           LET secure == Given(input, output[k].BindPort, {"HTTPS"})
           IN  \A item \in Range(secure) :
                   ~InTerminateMode(item.listener.TLS) =>
                       /\ \E c \in Range(output[k].HttpFilterChain) :
                              c.FilterChainName = KeyOf(item) /\ c.TLS = Nil
                       /\ \A c \in Range(output[k].HttpFilterChain) :
                              c.FilterChainName = KeyOf(item) => c.TLS = Nil
                       /\ (\A o \in Range(secure) : InTerminateMode(o.listener.TLS) =>
                               <<o>> # Failing(<<o>>))
                          => \A e \in DOMAIN reports :
                                 ~IsListenerCondition(reports[e], ListenerReporterOf(item.listener),
                                                      {"ResolvedRefs", "Programmed"})
    /\ \A i \in DOMAIN input :
           <<input[i]>> = Failing(<<input[i]>>) => InTerminateMode(input[i].listener.TLS)
    /\ Cardinality({e \in DOMAIN reports : reports[e].kind = "listener"})
           = 2 * FailedSoFar(Len(output))

\* a translated port whose two HTTPS listeners are one without TLS config and one
\* in Passthrough mode with a certificate ref: two chains without bundle and no
\* reporter call for a listener
C17_Witness ==
    \E k \in DOMAIN output :
        LET secure == Given(input, output[k].BindPort, {"HTTPS"})
        IN  /\ \E item \in Range(secure) : item.listener.TLS = Nil
            /\ \E item \in Range(secure) :
                   /\ item.listener.TLS # Nil
                   /\ Deref(item.listener.TLS).Mode # Nil
                   /\ Deref(item.listener.TLS).CertificateRefs # <<>>
                   /\ ~InTerminateMode(item.listener.TLS)
            /\ Len(output[k].HttpFilterChain) = 2
            /\ \A c \in Range(output[k].HttpFilterChain) : c.TLS = Nil
            /\ \A e \in DOMAIN reports : reports[e].kind # "listener"

\* host is some prefix followed by suffix
EndsWith(host, suffix) ==
    \E n \in 0..Len(host) : SubSeq(host, n + 1, Len(host)) = suffix

(* C18: isHostContained(host, listenerHostname) is true exactly when the listener
   hostname is nil, or equals host, or starts with "*." and host ends with the
   listener hostname without its leading "*"; "foo.example.com" is contained in
   "*.example.com", "example.com" is not, and both are contained in nil. *)
C18_Contained ==
    /\ pc = "contained" =>
           LET host == input[1]
               l == input[2]
           IN  output[1] <=>
                   \/ l = Nil
                   \/ host = Deref(l)
                   \/ /\ Len(Deref(l)) >= 2
                      /\ Deref(l)[1] = "*"
                      /\ Deref(l)[2] = "."
                      /\ EndsWith(host, Tail(Deref(l)))
    /\ pc = "contained" /\ input = <<fooExampleCom, Ptr(starExampleCom)>> => output[1]
    /\ pc = "contained" /\ input = <<exampleCom, Ptr(starExampleCom)>> => ~output[1]
    /\ pc = "contained" /\ input[2] = Nil => output[1]

\* the call with "foo.example.com" and "*.example.com" has returned true
C18_Witness ==
    /\ pc = "contained"
    /\ input = <<fooExampleCom, Ptr(starExampleCom)>>
    /\ output = <<TRUE>>

\* what one step of a pass may do to the position and to the result
PassStep ==
    /\ pc = "merge" => pc' \in {"merge", "translate"} /\ output' = <<>>
    /\ pc = "translate" =>
           /\ pc' \in {"translate", "done"}
           /\ input' = input
           /\ Listeners' = Listeners
           /\ \/ /\ pc' = "translate"
                 /\ Len(output) < Len(Listeners)
                 /\ Len(output') = Len(output) + 1
                 /\ SubSeq(output', 1, Len(output)) = output
                 /\ output'[Len(output')].Name = Listeners[Len(output')].name
                 /\ output'[Len(output')].BindPort = Listeners[Len(output')].port
              \/ /\ pc' = "done"
                 /\ Len(output) = Len(Listeners)
                 /\ output' = output
    /\ pc = "done" =>
           /\ pc' = "merge"
           /\ input' = <<>>
           /\ Listeners' = <<>>
           /\ output' = <<>>

(* C19: a pass ends: from the merge of the listeners the pass reaches its return;
   on the way the position only moves forward, every step of the translation
   appends the one ListenerIR of the next MergedListener and leaves the earlier
   ones and the aggregate as they are, the return comes when every
   MergedListener has its ListenerIR, and a further call starts from an empty
   aggregate and an empty result. *)
C19_PassEnds ==
    /\ [][PassStep]_vars
    /\ (pc = "merge") ~> (pc = "done")

\* a pass has returned two ListenerIRs, one of them with no chain at all
C19_Witness ==
    /\ pc = "done"
    /\ Len(output) = Len(Listeners)
    /\ Len(output) >= 2
    /\ \E k \in DOMAIN output :
           output[k].HttpFilterChain = <<>> /\ output[k].TcpFilterChain = <<>>

\* what makes the TLS resolution of a listener in Terminate mode fail
CauseOf(item) ==
    LET refs == Deref(item.listener.TLS).CertificateRefs
    IN  IF Len(refs) # 1 THEN "other"
        ELSE CASE refs[1] = "nogrant" -> "missing ReferenceGrant"
               [] refs[1] = "missing" -> "secret not found"
               [] refs[1] = "malformed" -> "malformed secret"
               [] OTHER -> "other"

StatedReason(item) ==
    IF CauseOf(item) = "missing ReferenceGrant" THEN "RefNotPermitted" ELSE "InvalidCertificateRef"

\* the message the claim states; it states none for a missing ReferenceGrant
HasStatedMessage(item, message) ==
    CASE CauseOf(item) = "secret not found" ->
            message = <<"Secret ", GatewayNamespace, "/",
                        Deref(item.listener.TLS).CertificateRefs[1], " not found.">>
      [] CauseOf(item) = "malformed secret" ->
            message = <<ValidateTlsSecretData(
                            [Name |-> Deref(item.listener.TLS).CertificateRefs[1],
                             Namespace |-> GatewayNamespace]).text>>
      [] CauseOf(item) = "other" -> message = <<"Invalid certificate ref.">>
      [] OTHER -> TRUE

\* the conditions at e and e + 1 are those stated for the failure of item
StatedPair(e, item) ==
    /\ reports[e].cond.Reason = StatedReason(item)
    /\ HasStatedMessage(item, reports[e].cond.Message)
    /\ e + 1 \in DOMAIN reports
    /\ reports[e + 1].kind = "listener"
    /\ reports[e + 1].cond = [Type |-> "Programmed", Status |-> "False", Reason |-> "Invalid",
                              Message |-> reports[e].cond.Message]

(* C20: the failed TLS resolution of each HTTPS listener of a translated port has
   its ResolvedRefs=False condition with the reason and message of its cause:
   RefNotPermitted for a missing ReferenceGrant, else InvalidCertificateRef,
   with "Secret {namespace}/{name} not found." for a secret not found, the
   validator's text for a malformed secret and the generic message for any
   other error; the Programmed=False condition after it has reason Invalid and
   the same message; and every ResolvedRefs=False condition is such a one. *)
C20_ReasonAndMessage ==
    /\ \A k \in DOMAIN output :
           \A f \in Range(Failing(Given(input, output[k].BindPort, {"HTTPS"}))) :
               \E e \in DOMAIN reports : IsResolvedRefsFalse(reports[e]) /\ StatedPair(e, f)
    /\ \A e \in DOMAIN reports :
           IsResolvedRefsFalse(reports[e]) =>
               \E i \in DOMAIN input :
                   /\ <<input[i]>> = Failing(<<input[i]>>)
                   /\ StatedPair(e, input[i])

\* a missing ReferenceGrant and a secret not found on one translated port
C20_Witness ==
    \E k \in DOMAIN output :
        LET failing == Failing(Given(input, output[k].BindPort, {"HTTPS"}))
        IN  /\ \E f \in Range(failing) : CauseOf(f) = "missing ReferenceGrant"
            /\ \E f \in Range(failing) : CauseOf(f) = "secret not found"
            /\ \E e \in DOMAIN reports : reports[e].cond.Reason = "RefNotPermitted"
            /\ \E e \in DOMAIN reports :
                   reports[e].cond.Message = <<"Secret ", "default", "/", "missing", " not found.">>

\* the hosts a route contributes to: its hostnames, "*" when it declares none,
\* none when it translates to no rule
HostsOfRoute(r) ==
    IF r.Translated = 0 THEN {}
    ELSE IF r.Hostnames = <<>> THEN {Wildcard}
    ELSE Range(r.Hostnames)

\* the rules one bound route adds to the bucket of host h
RulesOfRoute(r, h) ==
    IF h \in HostsOfRoute(r)
    THEN [i \in 1..r.Translated |->
             [Route |-> [Route |-> r.Name, Rule |-> i],
              CreationTimestamp |-> r.CreationTimestamp, Name |-> r.Name]]
    ELSE <<>>

RECURSIVE RulesOfRoutes(_, _)
RulesOfRoutes(routes, h) ==
    IF routes = <<>> THEN <<>>
    ELSE RulesOfRoute(Head(routes), h) \o RulesOfRoutes(Tail(routes), h)

\* the bucket of host h: the rules of every (parent, route) pair in input order
RECURSIVE Accumulated(_, _)
Accumulated(items, h) ==
    IF items = <<>> THEN <<>>
    ELSE RulesOfRoutes(RoutesOf(Head(items)), h) \o Accumulated(Tail(items), h)

RulesOfBuckets(vhosts, items) ==
    \A j \in DOMAIN vhosts :
        vhosts[j].Rules = ToRoutes(SortStable(Accumulated(items, vhosts[j].Hostname)))

(* C21 as stated: in every emitted HTTP or HTTPS chain the hostnames of the
   vhosts are exactly the hosts of the routes of its parents that translate to
   a rule ("*" for a route declaring none), and every vhost has the rules of
   all contributing (parent, route) pairs of its host. *)
C21_AsStated ==
    \A k \in DOMAIN output :
        LET plain == Given(input, output[k].BindPort, {"HTTP"})
            ok == Resolving(Given(input, output[k].BindPort, {"HTTPS"}))
            chains == SecureChains(output[k].HttpFilterChain, output[k].Name)
        IN  /\ \A i \in PlainChains(output[k]) :
                   LET vhosts == output[k].HttpFilterChain[i].Vhosts
                   IN  /\ {vhosts[j].Hostname : j \in DOMAIN vhosts} = RoutedHosts(plain)
                       /\ RulesOfBuckets(vhosts, plain)
            /\ \A i \in DOMAIN chains :
                   /\ {chains[i].Vhosts[j].Hostname : j \in DOMAIN chains[i].Vhosts}
                          = RoutedHosts(<<ok[i]>>)
                   /\ RulesOfBuckets(chains[i].Vhosts, <<ok[i]>>)

\* the calls of the route-rule translator for the routes, in order
TranslateCalls(routes) == [i \in DOMAIN routes |-> RouteTranslated(routes[i])]

(* C22: the route-rule translation of an HTTPS chain runs for every bound route
   before the TLS resolution: a ResolvedRefs=False of a failed TLS resolution is
   directly preceded by the translations of all routes of a failing HTTPS
   listener, in order; so for every failing HTTPS listener of a translated port,
   whose chain is not in the output, every bound route has its translation
   recorded before a listener's ResolvedRefs=False and Programmed=False. *)
C22_RoutesBeforeTls ==
    /\ \A e \in DOMAIN reports :
           IsResolvedRefsFalse(reports[e]) =>
               \E k \in DOMAIN output :
                   \E item \in Range(Failing(Given(input, output[k].BindPort, {"HTTPS"}))) :
                       /\ e > Len(RoutesOf(item))
                       /\ SubSeq(reports, e - Len(RoutesOf(item)), e - 1)
                              = TranslateCalls(RoutesOf(item))
    /\ \A k \in DOMAIN output :
           \A item \in Range(Failing(Given(input, output[k].BindPort, {"HTTPS"}))) :
               /\ \A c \in Range(output[k].HttpFilterChain) :
                      c.FilterChainName # KeyOf(item)
               /\ \A r \in Range(RoutesOf(item)) :
                      \E e1, e2 \in DOMAIN reports :
                          /\ e1 < e2
                          /\ reports[e1] = RouteTranslated(r)
                          /\ IsResolvedRefsFalse(reports[e2])
                          /\ IsProgrammedFalse(reports[e2 + 1])

\* a failed HTTPS chain with two bound routes, one of them translating to no
\* rule: both translations are recorded before the two listener conditions
C22_Witness ==
    \E k \in DOMAIN output :
        \E item \in Range(Failing(Given(input, output[k].BindPort, {"HTTPS"}))) :
            /\ Len(RoutesOf(item)) = 2
            /\ \E r \in Range(RoutesOf(item)) : r.Translated = 0
            /\ \E e \in DOMAIN reports :
                   /\ e > 2
                   /\ SubSeq(reports, e - 2, e - 1) = TranslateCalls(RoutesOf(item))
                   /\ IsResolvedRefsFalse(reports[e])
                   /\ IsProgrammedFalse(reports[e + 1])

\* the listener's binding result is nil or carries an error
Unbound(item) == item.result = Nil \/ Deref(item.result).Error

\* the pair with the same routes and a result without error
Cleared(items) ==
    [i \in DOMAIN items |->
        [items[i] EXCEPT !.result = Ptr([Routes |-> RoutesOf(items[i]), Error |-> FALSE])]]

\* the contribution of the pair to the MergedListener ml, with the pair's routes
Contributed(ml, item) ==
    CASE item.listener.Protocol = "HTTP" ->
            /\ ml.httpFilterChain # Nil
            /\ \E p \in Range(Deref(ml.httpFilterChain).parents) :
                   p.gatewayListenerName = KeyOf(item) /\ p.routesWithHosts = RoutesOf(item)
      [] item.listener.Protocol = "HTTPS" ->
            \E c \in Range(ml.httpsFilterChains) :
                c.gatewayListenerName = KeyOf(item) /\ c.routesWithHosts = RoutesOf(item)
      [] OTHER ->
            \E c \in Range(ml.TcpFilterChains) :
                /\ c.parents.gatewayListenerName = KeyOf(item)
                /\ c.parents.routesWithHosts = RoutesOf(item)

(* C23: a listener of a supported protocol whose binding result carries an
   error is merged with that result's routes, and one whose result is nil with
   no routes: the aggregate is the one of the same listeners bound without
   error (to no route for a nil result); the merge sets no condition, and no
   condition is set on the reporter of such a listener when its port has
   neither a failing HTTPS chain nor a TCP/TLS chain. *)
C23_ErrorIgnored ==
    /\ \A i \in Supported(input) :
           \E j \in DOMAIN Listeners :
               /\ Listeners[j].port = input[i].listener.Port
               /\ Contributed(Listeners[j], input[i])
    /\ Listeners = MergeAll(<<>>, Cleared(input))
    /\ pc = "merge" => reports = <<>>
    /\ \A i \in DOMAIN input :
           /\ Unbound(input[i])
           /\ Failing(Given(input, input[i].listener.Port, {"HTTPS"})) = <<>>
           /\ Given(input, input[i].listener.Port, {"TCP", "TLS"}) = <<>>
           => \A e \in DOMAIN reports :
                  ~(/\ reports[e].kind = "listener"
                    /\ reports[e].who = ListenerReporterOf(input[i].listener))

\* the pass is done for an HTTP listener with a binding error, whose route has
\* its vhost, and an HTTPS listener without result, whose chain has no vhost;
\* no condition is set on a listener
C23_Witness ==
    /\ pc = "done"
    /\ \A e \in DOMAIN reports : reports[e].kind # "listener"
    /\ \E i \in DOMAIN input :
           /\ input[i].result # Nil
           /\ Deref(input[i].result).Error
           /\ \E k \in DOMAIN output :
                  /\ output[k].BindPort = input[i].listener.Port
                  /\ \E c \in PlainChains(output[k]) :
                         \E v \in Range(output[k].HttpFilterChain[c].Vhosts) :
                             \E r \in Range(RoutesOf(input[i])) :
                                 v.Hostname \in Range(r.Hostnames) /\ v.Rules # <<>>
    /\ \E i \in DOMAIN input :
           /\ input[i].result = Nil
           /\ \E k \in DOMAIN output :
                  \E c \in Range(output[k].HttpFilterChain) :
                      c.FilterChainName = KeyOf(input[i]) /\ c.Vhosts = <<>>

\* the HTTP parents of a MergedListener
ParentsOf(ml) == IF ml.httpFilterChain = Nil THEN <<>> ELSE Deref(ml.httpFilterChain).parents

\* the contributions a MergedListener holds
Contributions(ml) ==
    Len(ParentsOf(ml)) + Len(ml.httpsFilterChains) + Len(ml.TcpFilterChains)

\* the contributions of the port in the aggregate ls
ContributionsOn(ls, port) ==
    IF \E j \in DOMAIN ls : ls[j].port = port
    THEN Contributions(ls[CHOOSE j \in DOMAIN ls : ls[j].port = port])
    ELSE 0

IsPrefix(a, b) == Len(a) <= Len(b) /\ SubSeq(b, 1, Len(a)) = a

\* the aggregate after is the aggregate before with one contribution of the
\* given kind more on the port, and nothing else changed
OneMore(before, after, port, protocol) ==
    /\ ContributionsOn(after, port) = ContributionsOn(before, port) + 1
    /\ Len(after) = Len(before) + (IF \E j \in DOMAIN before : before[j].port = port THEN 0 ELSE 1)
    /\ \A j \in DOMAIN before :
           IF before[j].port # port THEN after[j] = before[j]
           ELSE /\ IsPrefix(ParentsOf(before[j]), ParentsOf(after[j]))
                /\ IsPrefix(before[j].httpsFilterChains, after[j].httpsFilterChains)
                /\ IsPrefix(before[j].TcpFilterChains, after[j].TcpFilterChains)
    /\ \A j \in DOMAIN after :
           after[j].port = port =>
               /\ Len(ParentsOf(after[j])) =
                      (IF j \in DOMAIN before THEN Len(ParentsOf(before[j])) ELSE 0)
                      + (IF protocol = "HTTP" THEN 1 ELSE 0)
               /\ Len(after[j].httpsFilterChains) =
                      (IF j \in DOMAIN before THEN Len(before[j].httpsFilterChains) ELSE 0)
                      + (IF protocol = "HTTPS" THEN 1 ELSE 0)
               /\ Len(after[j].TcpFilterChains) =
                      (IF j \in DOMAIN before THEN Len(before[j].TcpFilterChains) ELSE 0)
                      + (IF protocol \in {"TCP", "TLS"} THEN 1 ELSE 0)

(* C24: an AppendListener call with a supported protocol on port p adds exactly
   one contribution to the MergedListener of p, an HTTP parent, an HTTPS chain
   or a TCP/TLS chain according to the protocol, creating the MergedListener
   when p is new; every other MergedListener and every entry already there stay
   as they were.  So every MergedListener holds as many HTTP parents, HTTPS
   chains and TCP/TLS chains together as supported listeners were appended on
   its port. *)
C24_OneContribution ==
    /\ \A t \in MixedListeners :
           t.Protocol \in SupportedProtocols =>
               LET item == Item(t, Len(input) + 1)
               IN  OneMore(Listeners,
                           AppendListener(Listeners, item.listener, RoutesOf(item),
                                          ListenerReporterOf(item.listener)).Listeners,
                           t.Port, t.Protocol)
    /\ \A j \in DOMAIN Listeners :
           /\ Len(ParentsOf(Listeners[j])) = Len(Given(input, Listeners[j].port, {"HTTP"}))
           /\ Len(Listeners[j].httpsFilterChains) = Len(Given(input, Listeners[j].port, {"HTTPS"}))
           /\ Len(Listeners[j].TcpFilterChains) = Len(Given(input, Listeners[j].port, {"TCP", "TLS"}))
           /\ Contributions(Listeners[j]) = Len(Given(input, Listeners[j].port, SupportedProtocols))

\* two ports, one of them with an HTTPS chain and a TLS chain of two listeners
C24_Witness ==
    /\ Len(Listeners) = 2
    /\ \E j \in DOMAIN Listeners :
           /\ Len(Listeners[j].httpsFilterChains) = 1
           /\ Len(Listeners[j].TcpFilterChains) = 1
           /\ Len(Given(input, Listeners[j].port, SupportedProtocols)) = 2

\* the first listener of a supported protocol given on the port
FirstOn(items, port) == Given(items, port, SupportedProtocols)[1]

\* the fields of a MergedListener that name it
Identity(ml) ==
    [name |-> ml.name, port |-> ml.port, listenerReporter |-> ml.listenerReporter,
     listener |-> ml.listener]

(* C25: the name, the port, the listener reporter and the listener of a
   MergedListener are those of the first listener appended on its port, and an
   append of any further listener changes none of them; the ListenerIR of the
   port has the name of the port, the PolicyAncestorRef of that first listener,
   and the conditions of a failed TLS resolution are set on its reporter. *)
C25_FirstFixes ==
    /\ \A j \in DOMAIN Listeners :
           LET first == FirstOn(input, Listeners[j].port).listener
           IN  Identity(Listeners[j]) =
                   [name |-> ListenerNameOfPort(first.Port), port |-> first.Port,
                    listenerReporter |-> ListenerReporterOf(first), listener |-> first]
    /\ \A t \in MixedListeners :
           LET item == Item(t, Len(input) + 1)
               after == AppendListener(Listeners, item.listener, RoutesOf(item),
                                       ListenerReporterOf(item.listener)).Listeners
           IN  \A j \in DOMAIN Listeners : Identity(after[j]) = Identity(Listeners[j])
    /\ \A k \in DOMAIN output :
           /\ output[k].Name = ListenerNameOfPort(output[k].BindPort)
           /\ output[k].PolicyAncestorRef
                  = FirstOn(input, output[k].BindPort).listener.PolicyAncestorRef
    /\ \A e \in DOMAIN reports :
           IsResolvedRefsFalse(reports[e]) \/ IsProgrammedFalse(reports[e]) =>
               \E k \in DOMAIN output :
                   reports[e].who = ListenerReporterOf(FirstOn(input, output[k].BindPort).listener)

\* a translated port of three listeners: its ListenerIR has the PolicyAncestorRef
\* of the first, and the failed TLS resolution of a later one is reported on the
\* first one's reporter
C25_Witness ==
    \E k \in DOMAIN output :
        LET items == Given(input, output[k].BindPort, SupportedProtocols)
        IN  /\ Len(items) = 3
            /\ output[k].PolicyAncestorRef = items[1].listener.PolicyAncestorRef
            /\ output[k].PolicyAncestorRef # items[3].listener.PolicyAncestorRef
            /\ <<items[1]>> # Failing(<<items[1]>>)
            /\ \E i \in 2..3 :
                   /\ items[i].listener.Protocol = "HTTPS"
                   /\ <<items[i]>> = Failing(<<items[i]>>)
            /\ Reported(ListenerReporterOf(items[1].listener), "ResolvedRefs", "False")

(* C26 as stated: no two TCP filter chains of one ListenerIR have the same
   FilterChainName, whatever routes are bound to the TCP/TLS listeners of the
   port. *)
C26_AsStated ==
    \A k \in DOMAIN output :
        \A i, j \in DOMAIN output[k].TcpFilterChain :
            output[k].TcpFilterChain[i].FilterChainName
                = output[k].TcpFilterChain[j].FilterChainName => i = j

\* the earliest route of the listener is not a TCPRoute or TLSRoute with one rule
EarliestRejected(item) ==
    \/ Earliest(RoutesOf(item)).Kind \notin {"TCPRoute", "TLSRoute"}
    \/ Earliest(RoutesOf(item)).SpecRules # 1

\* a route of the list, other than the earliest, that could be translated
LaterValid(routes) ==
    {r \in Range(routes) :
        /\ r # Earliest(routes)
        /\ r.Kind \in {"TCPRoute", "TLSRoute"}
        /\ r.SpecRules = 1
        /\ r.Backends # <<>>}

(* C27: a TCP/TLS chain whose earliest route is rejected, for a rule count other
   than one or for being neither a TCPRoute nor a TLSRoute, has no TCP IR and
   no reporter call, whatever its other routes are; so every TCP IR of a
   translated port is named by the earliest route of one of its listeners, a
   route that is not rejected, there are no more TCP IRs than such listeners,
   and every route condition is that of such a route. *)
C27_NoFallback ==
    /\ \A j \in DOMAIN Listeners :
           \A c \in Range(Listeners[j].TcpFilterChains) :
               LET item == [result |-> Bound(c.parents.routesWithHosts)]
               IN  /\ c.parents.routesWithHosts # <<>>
                   /\ DistinctTimestamps(c.parents.routesWithHosts)
                   /\ EarliestRejected(item)
                   => translateTcpFilterChain(c, Listeners[j].name)
                          = [tcp |-> Nil, events |-> <<>>]
    /\ \A k \in DOMAIN output :
           LET items == Given(input, output[k].BindPort, {"TCP", "TLS"})
               kept == {i \in DOMAIN items :
                           RoutesOf(items[i]) # <<>> /\ ~EarliestRejected(items[i])}
           IN  /\ Len(output[k].TcpFilterChain) <= Cardinality(kept)
               /\ \A c \in Range(output[k].TcpFilterChain) :
                      \E i \in kept :
                          c.FilterChainName
                              = TcpHostName(output[k].Name, Earliest(RoutesOf(items[i])))
    /\ \A e \in DOMAIN reports :
           reports[e].kind = "route" =>
               \E item \in Range(input) :
                   /\ RoutesOf(item) # <<>>
                   /\ ~EarliestRejected(item)
                   /\ reports[e].who.Route = Earliest(RoutesOf(item)).Name

\* a translated port of two TLS listeners, one whose earliest route has two
\* rules and one whose earliest route is an HTTPRoute, each with a later route
\* that could be translated: no TCP IR and no route condition
C27_Witness ==
    \E k \in DOMAIN output :
        LET items == Given(input, output[k].BindPort, {"TCP", "TLS"})
        IN  /\ Len(items) = 2
            /\ \A i \in DOMAIN items :
                   /\ RoutesOf(items[i]) # <<>>
                   /\ EarliestRejected(items[i])
                   /\ LaterValid(RoutesOf(items[i])) # {}
            /\ \E i \in DOMAIN items : Earliest(RoutesOf(items[i])).SpecRules # 1
            /\ \E i \in DOMAIN items : Earliest(RoutesOf(items[i])).Kind = "HTTPRoute"
            /\ output[k].TcpFilterChain = <<>>
            /\ \A e \in DOMAIN reports : reports[e].kind # "route"

\* the route declares backends and none of them resolves
AllBroken(r) == r.Backends # <<>> /\ \A b \in Range(r.Backends) : ~Resolvable(b)

(* C28: a TCP/TLS listener of a translated port whose selected route is a
   TCPRoute or TLSRoute with one rule and at least one backend has a TCP IR
   with all backends of the route, also when none of them resolves; a port with
   such a listener has a TCP IR, and Programmed=False with the no-backends
   message is on the reporter of none of its TCP/TLS listeners. *)
C28_BrokenBackendsCount ==
    \A k \in DOMAIN output :
        LET items == Given(input, output[k].BindPort, {"TCP", "TLS"})
        IN  \A i \in DOMAIN items :
                /\ Translatable(items[i])
                /\ DistinctTimestamps(RoutesOf(items[i]))
                => /\ \E c \in Range(output[k].TcpFilterChain) :
                          /\ c.FilterChainName
                                 = TcpHostName(output[k].Name, Earliest(RoutesOf(items[i])))
                          /\ c.BackendRefs = Earliest(RoutesOf(items[i])).Backends
                   /\ \A j \in DOMAIN items :
                          ~NotProgrammedTcp(ListenerReporterOf(items[j].listener))

\* a translated port of two TCP listeners, one without route and one whose
\* route has two backends, neither resolving: the port has the TCP IR with both
\* backends, their errors are reported and no reporter has Programmed=False
C28_Witness ==
    \E k \in DOMAIN output :
        LET items == Given(input, output[k].BindPort, {"TCP", "TLS"})
        IN  /\ Len(items) = 2
            /\ \E i \in DOMAIN items : RoutesOf(items[i]) = <<>>
            /\ \E i \in DOMAIN items :
                   /\ Translatable(items[i])
                   /\ AllBroken(Earliest(RoutesOf(items[i])))
            /\ Len(output[k].TcpFilterChain) = 1
            /\ Len(output[k].TcpFilterChain[1].BackendRefs) = 2
            /\ \E e \in DOMAIN reports :
                   reports[e].kind = "route" /\ reports[e].cond.Type = "ResolvedRefs"
            /\ \A e \in DOMAIN reports : reports[e].kind # "listener"

CertRefNames == {"good", "nogrant", "missing", "broken", "malformed"}

\* the lists of no or of two certificate refs
OtherCounts == {<<>>} \cup {<<a, b>> : a, b \in CertRefNames}

\* the listener is in Terminate mode with a number of certificate refs other than one
MiscountedRefs(item) ==
    /\ InTerminateMode(item.listener.TLS)
    /\ Len(Deref(item.listener.TLS).CertificateRefs) # 1

InvalidCertificateRefPair(e, who) ==
    /\ e + 1 \in DOMAIN reports
    /\ reports[e] = ListenerCondition(who,
           [Type |-> "ResolvedRefs", Status |-> "False", Reason |-> "InvalidCertificateRef",
            Message |-> <<"Invalid certificate ref.">>])
    /\ reports[e + 1] = ListenerCondition(who,
           [Type |-> "Programmed", Status |-> "False", Reason |-> "Invalid",
            Message |-> <<"Invalid certificate ref.">>])

(* C29: the TLS resolution of a config in Terminate mode with no or with two
   certificate refs returns the "only one certificate ref" error whatever the
   refs name, also refs whose lookup would fail for another cause: no secret is
   looked up; the chain of an HTTPS listener with such a config is not in the
   ListenerIR of its translated port, and ResolvedRefs=False with reason
   InvalidCertificateRef and, right after it, Programmed=False are set on the
   port's listener reporter. *)
C29_CountBeforeLookup ==
    /\ \A refs \in OtherCounts :
           translateSslConfig(GatewayNamespace, Terminate(refs))
               = [bundle |-> Nil,
                  err |-> [kind |-> "error",
                           text |-> "only one certificate ref is supported for now",
                           Namespace |-> "", Name |-> ""]]
    /\ \A k \in DOMAIN output :
           \A item \in Range(Given(input, output[k].BindPort, {"HTTPS"})) :
               MiscountedRefs(item) =>
                   /\ \A c \in Range(output[k].HttpFilterChain) :
                          c.FilterChainName # KeyOf(item)
                   /\ \E e \in DOMAIN reports :
                          InvalidCertificateRefPair(e,
                              ListenerReporterOf(FirstOn(input, output[k].BindPort).listener))
    /\ (\A i \in DOMAIN input :
            <<input[i]>> = Failing(<<input[i]>>) => MiscountedRefs(input[i]))
       => \A e \in DOMAIN reports :
              IsResolvedRefsFalse(reports[e]) \/ IsProgrammedFalse(reports[e]) =>
                  reports[e].cond.Message = <<"Invalid certificate ref.">>

\* a translated port of two HTTPS listeners in Terminate mode, one without
\* certificate ref and one with two refs the first of which has no
\* ReferenceGrant: no chain, and both pairs of conditions have the reason of a
\* miscount
C29_Witness ==
    \E k \in DOMAIN output :
        LET secure == Given(input, output[k].BindPort, {"HTTPS"})
        IN  /\ Len(secure) = 2
            /\ \E item \in Range(secure) :
                   MiscountedRefs(item) /\ Deref(item.listener.TLS).CertificateRefs = <<>>
            /\ \E item \in Range(secure) :
                   /\ MiscountedRefs(item)
                   /\ Len(Deref(item.listener.TLS).CertificateRefs) = 2
                   /\ Deref(item.listener.TLS).CertificateRefs[1] = "nogrant"
            /\ output[k].HttpFilterChain = <<>>
            /\ Cardinality({e \in DOMAIN reports :
                   InvalidCertificateRefPair(e, ListenerReporterOf(secure[1].listener))}) = 2

\* the hosts of the routes of the parents that no parent's hostname contains
Unmatched(parents) == {h \in RoutedHosts(parents) : Matching(parents, h) = {}}

(* C30: in the plaintext chain of a translated port a host of a bound route that
   no parent's hostname contains has a vhost of its vhost name, and the vhost
   of that hostname, which exists when no other host has the same vhost name,
   has its rules, no attached policies and the zero-value parent ref. *)
C30_UnmatchedKept ==
    \A k \in DOMAIN output :
        LET parents == Given(input, output[k].BindPort, {"HTTP"})
        IN  \A i \in PlainChains(output[k]) :
                LET vhosts == output[k].HttpFilterChain[i].Vhosts
                IN  \A h \in Unmatched(parents) :
                        /\ \E j \in DOMAIN vhosts :
                               vhosts[j].Name = makeVhostName(output[k].Name, h)
                        /\ (\A o \in RoutedHosts(parents) :
                                makeVhostName(output[k].Name, o) = makeVhostName(output[k].Name, h)
                                    => o = h)
                           => \E j \in DOMAIN vhosts : vhosts[j].Hostname = h
                        /\ \A j \in DOMAIN vhosts :
                               vhosts[j].Hostname = h =>
                                   /\ vhosts[j].Rules # <<>>
                                   /\ vhosts[j].AttachedPolicies = {}
                                   /\ vhosts[j].ParentRef.Name = <<>>
                                   /\ vhosts[j].ParentRef.Port = 0
                                   /\ vhosts[j].ParentRef.Hostname = Nil
                                   /\ vhosts[j].ParentRef.AttachedPolicies = {}

\* a plaintext chain of two parents with a vhost that neither contains, without
\* policies and parent, next to a vhost with the policies of its parent
C30_Witness ==
    \E k \in DOMAIN output :
        LET parents == Given(input, output[k].BindPort, {"HTTP"})
        IN  /\ Len(parents) = 2
            /\ \E i \in PlainChains(output[k]) :
                   LET vhosts == output[k].HttpFilterChain[i].Vhosts
                   IN  /\ \E j \in DOMAIN vhosts :
                              /\ vhosts[j].Hostname \in Unmatched(parents)
                              /\ vhosts[j].AttachedPolicies = {}
                              /\ vhosts[j].ParentRef.Name = <<>>
                       /\ \E j \in DOMAIN vhosts :
                              /\ vhosts[j].Hostname \notin Unmatched(parents)
                              /\ vhosts[j].AttachedPolicies # {}
                              /\ vhosts[j].ParentRef = parents[2].listener

====
